---------------------------- MODULE Spec2Model ----------------------------
(***************************************************************************)
(* A model of the rt ray tracer: the library renderer (src/src/renderer.cc, *)
(* src/src/lights.cc, src/include/rt/*.h) and the single-file variant      *)
(* (src/main.cc, src/rt.h).                                                *)
(*                                                                         *)
(* Scalars (C++ double) are fixed-point integers.  One model unit is a     *)
(* quarter of ScalarPrecision, so ScalarPrecision / 2 is exact.  The IEEE  *)
(* values +infinity, -infinity and NaN are three reserved integers with    *)
(* the IEEE rules for arithmetic and comparison (F-operators below).       *)
(***************************************************************************)
EXTENDS Integers, Sequences, FiniteSets, TLC

VARIABLES
    fn, args, ret,         \* a call of a pure function: its name, arguments, result
    program,               \* "rt" (renderer.cc) or "main" (main.cc)
    renderer,              \* the Renderer: scene, camera, numDofSamples, maxRayDepth
    image,                 \* the Image being rendered
    pc,                    \* where Renderer::render is
    next,                  \* the first index parallel_for has not handed out
    workers,               \* the body each parallel_for worker is running
    sampled, superSampled, \* the arrays of Renderer::render
    index,                 \* the index of render's sequential loops
    samplers,              \* the seed of each sampler
    traceCounter, rayCounter,
    traceCalls,            \* the invocations of Renderer::trace made so far
    lightSamples,          \* the unoccluded light samples shaded so far
    shadeCalls,            \* the calls of Light::shade made so far
    writes,                \* how often each slot of image.data was written
    seedWriters,           \* the workers that wrote each sampler's seed
    slotWriters,           \* <<index, slot>> for each output slot a body wrote
    regions,               \* the calls of Renderer::renderRegion in progress
    pointCalls,            \* the renderPoint calls made for the pixel so far
    regionCalls,           \* the top-level renderRegion calls for the pixel
    deleted,               \* how often rt::render has deleted each object
    stale,                 \* the objects accessed after they were deleted
    printed,               \* the pixel count of the performance summary
    frames,                \* the calls of the trigonometric helpers in progress
    libraryCalls           \* the calls of the standard library's sin and cos

pureVars == <<fn, args, ret>>
renderVars == <<program, renderer, image, pc, next, workers, sampled,
                superSampled, index, samplers, traceCounter, rayCounter, traceCalls, lightSamples,
                shadeCalls, writes, seedWriters, slotWriters>>
regionVars == <<regions, pointCalls, regionCalls>>
heapVars == <<deleted, stale, printed>>
trigVars == <<frames, libraryCalls>>
vars == <<pureVars, renderVars, regionVars, heapVars, trigVars>>

\* No render is under way.
NoRender ==
    /\ program = "none"
    /\ renderer = << >>
    /\ image = << >>
    /\ pc = "idle"
    /\ next = 0
    /\ workers = << >>
    /\ sampled = << >>
    /\ superSampled = << >>
    /\ index = 0
    /\ samplers = << >>
    /\ traceCounter = 0
    /\ rayCounter = 0
    /\ traceCalls = 0
    /\ lightSamples = 0
    /\ shadeCalls = 0
    /\ writes = << >>
    /\ seedWriters = << >>
    /\ slotWriters = {}
    /\ regions = << >>
    /\ pointCalls = 0
    /\ regionCalls = 0
    /\ deleted = [object \in {"renderer", "image"} |-> 0]
    /\ stale = {}
    /\ printed = 0
    /\ frames = << >>
    /\ libraryCalls = 0

-----------------------------------------------------------------------------
(* Bounds of the model.                                                    *)

MaxCoord   == 6      \* coordinates of positions lie in -MaxCoord..MaxCoord
MaxRadius  == 3      \* sphere radii lie in 1..MaxRadius
MaxObjects == 3      \* object lists have at most MaxObjects elements
NumRays    == 2      \* abstract rays of a tabulated scene are 0..NumRays-1
MaxT       == 7      \* finite intersection distances lie in 1..MaxT

Rays == 0 .. (NumRays - 1)

-----------------------------------------------------------------------------
(* Scalars.                                                                *)

ScalarPrecision == 4            \* 1e-6, in units of 0.25e-6
INFINITY        == 1000000      \* +infinity
NaN             == 3000000      \* not-a-number (belongs to no order)
NegInfinity     == 0 - INFINITY

IsFinite(a) == a # INFINITY /\ a # NegInfinity /\ a # NaN

\* IEEE comparisons: every comparison with NaN is false, except !=.
FGt(a, b) == a # NaN /\ b # NaN /\ a > b
FLt(a, b) == a # NaN /\ b # NaN /\ a < b
FNe(a, b) == a = NaN \/ b = NaN \/ a # b

\* IEEE addition and subtraction of a finite b.
FAdd(a, b) == IF IsFinite(a) THEN a + b ELSE a
FSub(a, b) == IF IsFinite(a) THEN a - b ELSE a

\* IEEE division f / g of finite operands; g divides f or g is 0.
FDiv(f, g) ==
    IF g = 0
    THEN IF f > 0 THEN INFINITY ELSE IF f < 0 THEN NegInfinity ELSE NaN
    ELSE IF g < 0 THEN (0 - f) \div (0 - g) ELSE f \div g

\* sqrt() of a perfect square.
sqrt(d) == CHOOSE s \in 0 .. d : s * s = d
IsSquare(d) == \E s \in 0 .. d : s * s = d

-----------------------------------------------------------------------------
(* Vectors.                                                                *)

Vector(x, y, z) == [x |-> x, y |-> y, z |-> z, w |-> 0]

\* Subtraction: A' = A - B
VSub(a, b) == Vector(a.x - b.x, a.y - b.y, a.z - b.z)

\* Dot product: x = A . B (uses the fourth component)
Dot(a, b) == a.x * b.x + a.y * b.y + a.z * b.z + a.w * b.w

Ray(position, direction) == [position |-> position, direction |-> direction]

-----------------------------------------------------------------------------
(* Objects: Sphere and Plane.                                              *)

Sphere(position, radius) ==
    [type |-> "Sphere", position |-> position, radius |-> radius]

Plane(origin, direction) ==
    [type |-> "Plane", position |-> origin, direction |-> direction]

\* Sphere::intersect with the far root tried before the near root.
Sphere_intersect_FarRootFirst(self, ray) ==
    LET distance == VSub(self.position, ray.position)
        b == Dot(ray.direction, distance)
        d == b * b + self.radius * self.radius - Dot(distance, distance)
    IN  IF d < 0
        THEN 0
        ELSE LET t0 == b - sqrt(d)
                 t1 == b + sqrt(d)
             IN  IF t1 > ScalarPrecision THEN t1
                 ELSE IF t0 > ScalarPrecision THEN t0
                 ELSE 0

Sphere_intersect(self, ray) ==
    LET distance == VSub(self.position, ray.position)
        b == Dot(ray.direction, distance)
        d == b * b + self.radius * self.radius - Dot(distance, distance)
    IN  IF d < 0
        THEN 0
        ELSE LET t0 == b - sqrt(d)
                 t1 == b + sqrt(d)
             IN  IF t0 > ScalarPrecision THEN t0
                 ELSE IF t1 > ScalarPrecision THEN t1
                 ELSE 0

\* Plane::intersect with its candidates compared against 0 instead of
\* ScalarPrecision.
Plane_intersect_AboveZero(self, ray) ==
    LET f  == Dot(VSub(self.position, ray.position), self.direction)
        g  == Dot(ray.direction, self.direction)
        t  == FDiv(f, g)
        t0 == FSub(t, ScalarPrecision \div 2)
        t1 == FAdd(t, ScalarPrecision \div 2)
    IN  IF FGt(t0, 0) THEN t0
        ELSE IF FGt(t1, 0) THEN t1
        ELSE 0

Plane_intersect(self, ray) ==
    LET f  == Dot(VSub(self.position, ray.position), self.direction)
        g  == Dot(ray.direction, self.direction)
        t  == FDiv(f, g)
        t0 == FSub(t, ScalarPrecision \div 2)
        t1 == FAdd(t, ScalarPrecision \div 2)
    IN  IF FGt(t0, ScalarPrecision) THEN t0
        ELSE IF FGt(t1, ScalarPrecision) THEN t1
        ELSE 0


-----------------------------------------------------------------------------
(* Calls of Sphere::intersect and Plane::intersect on rays and objects     *)
(* whose components are integers: ray directions and plane normals are     *)
(* unit vectors along an axis, so every dot product is exact, and only     *)
(* spheres whose discriminant is negative or a perfect square are drawn.   *)

NoCall == "none"

Coords == (0 - MaxCoord) .. MaxCoord
Units  == {Vector(1, 0, 0), Vector(0 - 1, 0, 0), Vector(0, 1, 0)}
Origin == Vector(0, 0, 0)

SphereDiscriminant(self, ray) ==
    LET distance == VSub(self.position, ray.position)
        b == Dot(ray.direction, distance)
    IN  b * b + self.radius * self.radius - Dot(distance, distance)

SphereArgs ==
    { a \in [obj : {Sphere(Vector(cx, cy, 0), r) :
                        cx \in Coords, cy \in 0 .. (MaxRadius + 1),
                        r \in 1 .. MaxRadius},
             ray : {Ray(Origin, u) : u \in Units}] :
        SphereDiscriminant(a.obj, a.ray) < 0
            \/ IsSquare(SphereDiscriminant(a.obj, a.ray)) }

PlaneArgs ==
    [obj : {Plane(Vector(px, py, 0), n) :
                px \in Coords, py \in 0 .. (MaxRadius + 1), n \in Units},
     ray : {Ray(Origin, u) : u \in Units}]

ObjInit ==
    /\ fn = NoCall
    /\ args \in SphereArgs \cup PlaneArgs
    /\ ret = 0
    /\ NoRender

CallSphereIntersect ==
    /\ fn = NoCall
    /\ args.obj.type = "Sphere"
    /\ fn' = "Sphere::intersect"
    /\ ret' = Sphere_intersect(args.obj, args.ray)
    /\ UNCHANGED <<args, renderVars, regionVars, heapVars, trigVars>>

CallPlaneIntersect ==
    /\ fn = NoCall
    /\ args.obj.type = "Plane"
    /\ fn' = "Plane::intersect"
    /\ ret' = Plane_intersect(args.obj, args.ray)
    /\ UNCHANGED <<args, renderVars, regionVars, heapVars, trigVars>>

ObjNext == CallSphereIntersect \/ CallPlaneIntersect

SpecObj == ObjInit /\ [][ObjNext]_vars

-----------------------------------------------------------------------------
(* C10.                                                                    *)

\* The candidate roots of the ray and sphere: none when d < 0.
SphereRoots(self, ray) ==
    LET distance == VSub(self.position, ray.position)
        b == Dot(ray.direction, distance)
        d == SphereDiscriminant(self, ray)
    IN  IF d < 0 THEN {} ELSE {b - sqrt(d), b + sqrt(d)}

\* The root f / g of the ray and plane.
PlaneRoot(self, ray) ==
    FDiv(Dot(VSub(self.position, ray.position), self.direction),
         Dot(ray.direction, self.direction))

\* 0 when no member of S exceeds h, else the smallest member that does.
SmallestAbove(S, h) ==
    LET above == {r \in S : FGt(r, h)}
    IN  IF above = {} THEN 0
        ELSE CHOOSE r \in above : \A q \in above : r <= q

-----------------------------------------------------------------------------
(* Tabulated scenes.  Above the intersect functions the renderer sees an   *)
(* object only through its virtual methods, so an object of a scene is     *)
(* the table of what they return for each ray of the scene.  Rays are      *)
(* named 0..NumRays-1.                                                     *)

\* The virtual call objects[i]->intersect(ray).
intersect(object, ray) == object.intersect[ray]

\* What Sphere::intersect and Plane::intersect return: 0, a finite distance
\* above ScalarPrecision, or +infinity (a Plane and a parallel ray).
HitValues == {0} \cup ((ScalarPrecision + 1) .. MaxT) \cup {INFINITY}

\* What the intersect of any other subclass of Object may return as well.
AnyValues == HitValues \cup {0 - t : t \in (ScalarPrecision + 1) .. MaxT}

nullptr == 0

\* closestIntersect with <= for <: on a tie the last object wins.
RECURSIVE closestIntersect_LastOnTie_From(_, _, _, _, _)
closestIntersect_LastOnTie_From(ray, objects, i, closest, t) ==
    IF i > Len(objects)
    THEN [closest |-> closest, t |-> t]
    ELSE LET currentT == intersect(objects[i], ray)
         IN  IF FNe(currentT, 0) /\ ~FGt(currentT, t)
             THEN closestIntersect_LastOnTie_From(ray, objects, i + 1, i, currentT)
             ELSE closestIntersect_LastOnTie_From(ray, objects, i + 1, closest, t)

closestIntersect_LastOnTie(ray, objects) ==
    closestIntersect_LastOnTie_From(ray, objects, 1, nullptr, INFINITY)

\* The loop of closestIntersect (renderer.cc) from object i on.  An object
\* pointer is the object's place 1..Len(objects) in the list.
RECURSIVE closestIntersectFrom(_, _, _, _, _)
closestIntersectFrom(ray, objects, i, closest, t) ==
    IF i > Len(objects)
    THEN [closest |-> closest, t |-> t]
    ELSE LET currentT == intersect(objects[i], ray)
         IN  IF FNe(currentT, 0) /\ FLt(currentT, t)
             THEN closestIntersectFrom(ray, objects, i + 1, i, currentT)
             ELSE closestIntersectFrom(ray, objects, i + 1, closest, t)

closestIntersect(ray, objects) ==
    closestIntersectFrom(ray, objects, 1, nullptr, INFINITY)

\* The loop of closestIntersect (main.cc): it returns the index, counted
\* from 0, or -1.
RECURSIVE main_closestIntersectFrom(_, _, _, _, _)
main_closestIntersectFrom(ray, objects, i, closest, t) ==
    IF i >= Len(objects)
    THEN [index |-> closest, t |-> t]
    ELSE LET currentT == intersect(objects[i + 1], ray)
         IN  IF FNe(currentT, 0) /\ FLt(currentT, t)
             THEN main_closestIntersectFrom(ray, objects, i + 1, i, currentT)
             ELSE main_closestIntersectFrom(ray, objects, i + 1, closest, t)

main_closestIntersect(ray, objects) ==
    main_closestIntersectFrom(ray, objects, 0, 0 - 1, INFINITY)

\* intersects (lights.cc) with t != 0 for t > 0, as in main.cc.
RECURSIVE intersects_NonZero_From(_, _, _, _)
intersects_NonZero_From(ray, objects, distance, i) ==
    IF i > Len(objects)
    THEN FALSE
    ELSE LET t == intersect(objects[i], ray)
         IN  IF FNe(t, 0) /\ FLt(t, distance)
             THEN TRUE
             ELSE intersects_NonZero_From(ray, objects, distance, i + 1)

intersects_NonZero(ray, objects, distance) ==
    intersects_NonZero_From(ray, objects, distance, 1)

\* intersects (lights.cc): does any object intersect ray within distance?
RECURSIVE intersectsFrom(_, _, _, _)
intersectsFrom(ray, objects, distance, i) ==
    IF i > Len(objects)
    THEN FALSE
    ELSE LET t == intersect(objects[i], ray)
         IN  IF FGt(t, 0) /\ FLt(t, distance)
             THEN TRUE
             ELSE intersectsFrom(ray, objects, distance, i + 1)

intersects(ray, objects, distance) == intersectsFrom(ray, objects, distance, 1)

\* intersects (main.cc): does any object intersect ray?
RECURSIVE main_intersectsFrom(_, _, _)
main_intersectsFrom(ray, objects, i) ==
    IF i > Len(objects)
    THEN FALSE
    ELSE IF FNe(intersect(objects[i], ray), 0)
         THEN TRUE
         ELSE main_intersectsFrom(ray, objects, i + 1)

main_intersects(ray, objects) == main_intersectsFrom(ray, objects, 1)

-----------------------------------------------------------------------------
(* Calls of closestIntersect and intersects on a ray and an object list.   *)

\* An object that returns t for every ray.
TabObject(t) == [intersect |-> [r \in Rays |-> t]]

ObjectLists(values) ==
    UNION { [1 .. n -> {TabObject(t) : t \in values}] : n \in 0 .. MaxObjects }

Distances == 1 .. (MaxT + 1)

IsectInit ==
    /\ fn = NoCall
    /\ args \in [ray : Rays, objects : ObjectLists(AnyValues),
                 distance : Distances]
    /\ ret = 0
    /\ NoRender

CallClosestIntersect ==
    /\ fn = NoCall
    /\ fn' = "closestIntersect"
    /\ ret' = closestIntersect(args.ray, args.objects)
    /\ UNCHANGED <<args, renderVars, regionVars, heapVars, trigVars>>

CallMainClosestIntersect ==
    /\ fn = NoCall
    /\ fn' = "main::closestIntersect"
    /\ ret' = main_closestIntersect(args.ray, args.objects)
    /\ UNCHANGED <<args, renderVars, regionVars, heapVars, trigVars>>

CallIntersects ==
    /\ fn = NoCall
    /\ fn' = "intersects"
    /\ ret' = intersects(args.ray, args.objects, args.distance)
    /\ UNCHANGED <<args, renderVars, regionVars, heapVars, trigVars>>

CallMainIntersects ==
    /\ fn = NoCall
    /\ fn' = "main::intersects"
    /\ ret' = main_intersects(args.ray, args.objects)
    /\ UNCHANGED <<args, renderVars, regionVars, heapVars, trigVars>>

IsectNext ==
    \/ CallClosestIntersect
    \/ CallMainClosestIntersect
    \/ CallIntersects
    \/ CallMainIntersects

SpecIsect == IsectInit /\ [][IsectNext]_vars

-----------------------------------------------------------------------------
(* Calls of closestIntersect and intersects on a ray and an object list    *)
(* that holds a Plane: the Plane's entry in the list is the table of what  *)
(* Plane::intersect returns for the ray.                                   *)

\* Is the ray parallel to the plane?  Then g = 0 and f / g is +infinity,
\* -infinity or NaN.
Parallel(self, ray) == Dot(ray.direction, self.direction) = 0

PlaneObject(self, ray) == TabObject(Plane_intersect(self, ray))

\* The other object of the list: one the ray misses or one it hits.
OtherObjects == {TabObject(0), TabObject(MaxT)}

\* The lists: the plane alone, before or after another object.
PlaneLists(plane, other) ==
    { [objects |-> <<plane>>, place |-> 1],
      [objects |-> <<plane, other>>, place |-> 1],
      [objects |-> <<other, plane>>, place |-> 2] }

PlaneSceneArgs ==
    { [obj |-> a.obj, ray |-> a.ray, objects |-> l.objects, place |-> l.place, distance |-> d] :
        a \in PlaneArgs,
        l \in UNION { PlaneLists(PlaneObject(b.obj, b.ray), o) : b \in PlaneArgs, o \in OtherObjects },
        d \in {1, MaxT + 1} }

PlaneSceneInit ==
    /\ fn = NoCall
    /\ args \in { a \in PlaneSceneArgs : a.objects[a.place] = PlaneObject(a.obj, a.ray) }
    /\ ret = 0
    /\ NoRender

PlaneClosestIntersect ==
    /\ fn = NoCall
    /\ fn' = "closestIntersect"
    /\ ret' = closestIntersect(0, args.objects)
    /\ UNCHANGED <<args, renderVars, regionVars, heapVars, trigVars>>

PlaneMainClosestIntersect ==
    /\ fn = NoCall
    /\ fn' = "main::closestIntersect"
    /\ ret' = main_closestIntersect(0, args.objects)
    /\ UNCHANGED <<args, renderVars, regionVars, heapVars, trigVars>>

PlaneIntersects ==
    /\ fn = NoCall
    /\ fn' = "intersects"
    /\ ret' = intersects(0, args.objects, args.distance)
    /\ UNCHANGED <<args, renderVars, regionVars, heapVars, trigVars>>

PlaneMainIntersects ==
    /\ fn = NoCall
    /\ fn' = "main::intersects"
    /\ ret' = main_intersects(0, args.objects)
    /\ UNCHANGED <<args, renderVars, regionVars, heapVars, trigVars>>

PlaneSceneNext ==
    \/ PlaneClosestIntersect
    \/ PlaneMainClosestIntersect
    \/ PlaneIntersects
    \/ PlaneMainIntersects

SpecPlaneScene == PlaneSceneInit /\ [][PlaneSceneNext]_vars

-----------------------------------------------------------------------------
(* C11.                                                                    *)

\* The list without the object at place.
WithoutPlace(objects, place) ==
    SubSeq(objects, 1, place - 1) \o SubSeq(objects, place + 1, Len(objects))

\* C11: for a ray parallel to a Plane the plane is treated as not
\* intersected: neither closestIntersect selects it, and both shadow tests
\* (intersects of lights.cc, intersects of main.cc) answer as they do for
\* the list without the plane.
C11_ParallelPlaneNotIntersected ==
    Parallel(args.obj, args.ray) =>
        /\ fn = "closestIntersect" => ret.closest # args.place
        /\ fn = "main::closestIntersect" => ret.index # args.place - 1
        /\ fn = "intersects" =>
             ret = intersects(0, WithoutPlace(args.objects, args.place), args.distance)
        /\ fn = "main::intersects" =>
             ret = main_intersects(0, WithoutPlace(args.objects, args.place))

\* C11, closestIntersect and the shadow test of lights.cc alone.
C11_ParallelPlaneNotIntersected_rt ==
    Parallel(args.obj, args.ray) =>
        /\ fn = "closestIntersect" => ret.closest # args.place
        /\ fn = "main::closestIntersect" => ret.index # args.place - 1
        /\ fn = "intersects" =>
             ret = intersects(0, WithoutPlace(args.objects, args.place), args.distance)


-----------------------------------------------------------------------------
(* The random sampler.  A seed keeps its low SeedBits bits: the low bits   *)
(* of seed * mult depend on the low bits of seed alone, so this is the     *)
(* projection of the 64-bit seed.  The Scalar a call returns is quantised  *)
(* into NumValues equal parts of the range [min, max).                     *)

SeedBits  == 5
NumValues == 2

SeedModulus == 2 ^ SeedBits
mult        == 62089911
defaultSeed == 7564231

\* The seed of a newly constructed sampler.
UniformDistribution == defaultSeed % SeedModulus

\* seed *= mult, on the low SeedBits bits of the seed (the product is
\* formed in two parts to stay within the integers of the model checker).
NextSeed(seed) ==
    LET m == mult % SeedModulus
    IN  (((seed * (m \div 256)) % SeedModulus) * 256 + seed * (m % 256))
            % SeedModulus

\* r = seed % longMax / divisor, as a part 0..NumValues-1 of the range.
ValueOf(seed) == (seed * NumValues) \div SeedModulus

\* UniformDistribution::operator(): the new seed and the value returned.
UniformDistribution_call(seed) ==
    [seed |-> NextSeed(seed), value |-> ValueOf(NextSeed(seed))]

\* The samplers of a program: the lens's aperture, the global softSampler
\* and sampler of main.cc, and the sampler of each SoftLight.
SamplerIds == {"aperture", "softSampler", "sampler", "light1", "light2"}

NoSampler == "none"

\* The samplers as a piece of code run on its own sees them: mem holds the
\* seeds and every call reads and writes mem.
Sequential(mem) ==
    [replay |-> FALSE, mem |-> mem, drawn |-> << >>, k |-> 0,
     call |-> NoSampler]

\* The samplers as a parallel_for body sees them when it is run again up
\* to its next call: drawn holds the values the calls it has made so far
\* have returned; the first call beyond them is recorded in call, and what
\* the body computes after it is discarded.
Replay(drawn) ==
    [replay |-> TRUE, mem |-> << >>, drawn |-> drawn, k |-> 0,
     call |-> NoSampler]

\* The value e under a name: Op's parameter stands for the local variable
\* that holds e.  The value is computed once, before Op uses it, as the
\* assignment to the local variable is.
With(e, Op(_)) == CHOOSE r \in { Op(v) : v \in {e} } : TRUE

\* A call of the sampler id: the samplers afterwards and the value returned.
Sample(io, id) ==
    IF ~io.replay
    THEN LET c == UniformDistribution_call(io.mem[id])
         IN  [io |-> [io EXCEPT !.mem[id] = c.seed], value |-> c.value]
    ELSE IF io.k < Len(io.drawn)
    THEN [io |-> [io EXCEPT !.k = @ + 1], value |-> io.drawn[io.k + 1]]
    ELSE [io |-> [io EXCEPT !.call = IF @ = NoSampler THEN id ELSE @],
          value |-> 0]

-----------------------------------------------------------------------------
(* Materials and lights of a tabulated scene.  A Colour is one channel     *)
(* (the three channels are computed alike).  A surface point is named by   *)
(* the ray that hit it.  The origins a SoftLight samples are grouped into  *)
(* NumOffsets cells; for a surface point and a cell the light's table      *)
(* toLight gives the shadow ray, the distance to the origin, and the       *)
(* Lambert and Blinn-Phong factors.                                        *)

NumOffsets == 2
MaxSamples == 3

Offsets == 0 .. (NumOffsets - 1)

\* The cell of the origin position + (x, y, z).
OffsetOf(x, y, z) == (x + y + z) % NumOffsets

Material(colour, ambient, diffuse, specular, reflectivity) ==
    [colour |-> colour, ambient |-> ambient, diffuse |-> diffuse,
     specular |-> specular, reflectivity |-> reflectivity]

\* A SoftLight draws its origins from its own sampler (lights.h), or from
\* the global softSampler (main.cc).
SoftLight(colour, samples, toLight, sampler) ==
    [type |-> "SoftLight", colour |-> colour, samples |-> samples,
     toLight |-> toLight, sampler |-> sampler]

PointLight(colour, toLight) ==
    [type |-> "PointLight", colour |-> colour, samples |-> 1,
     toLight |-> toLight, sampler |-> NoSampler]

\* Colour / Scalar, exact on the colours of the model's scenes.
ColourDiv(c, x) == c \div x

\* The Lambert and Blinn-Phong terms of one unoccluded light ray.
Shading(illumination, material, g) ==
    illumination * material.diffuse * g.lambert
        + illumination * material.specular * g.phong

\* The three sampler() calls that make one origin: the samplers afterwards
\* and the cell of the origin.
SampleOrigin(io, id) ==
    With(Sample(io, id), LAMBDA x :
    With(Sample(x.io, id), LAMBDA y :
    With(Sample(y.io, id), LAMBDA z :
        [io |-> z.io, offset |-> OffsetOf(x.value, y.value, z.value)])))

\* SoftLight::shade (lights.cc) with break for continue: the first occluded
\* sample ends the loop.
RECURSIVE SoftLight_shade_Break_From(_, _, _, _, _, _, _, _)
SoftLight_shade_Break_From(self, point, material, objects, i, output, io, rays) ==
    IF i >= self.samples
    THEN [colour |-> output, io |-> io, rays |-> rays]
    ELSE With(SampleOrigin(io, self.sampler), LAMBDA origin :
         LET g == self.toLight[point][origin.offset]
             illumination ==
                 ColourDiv(self.colour * material.colour, self.samples)
         IN  IF intersects(g.ray, objects, g.distance)
             THEN [colour |-> output, io |-> origin.io, rays |-> rays]
             ELSE SoftLight_shade_Break_From(self, point, material, objects, i + 1,
                      output + Shading(illumination, material, g),
                      origin.io, rays + 1))

SoftLight_shade_Break(self, point, material, objects, io) ==
    SoftLight_shade_Break_From(self, point, material, objects, 0, 0, io, 0)

\* The loop of SoftLight::shade (lights.cc) from sample i on, with the
\* output so far, the samplers and the count of rays cast.
RECURSIVE SoftLight_shade_From(_, _, _, _, _, _, _, _)
SoftLight_shade_From(self, point, material, objects, i, output, io, rays) ==
    IF i >= self.samples
    THEN [colour |-> output, io |-> io, rays |-> rays]
    ELSE With(SampleOrigin(io, self.sampler), LAMBDA origin :
         LET g == self.toLight[point][origin.offset]
             illumination ==
                 ColourDiv(self.colour * material.colour, self.samples)
         IN  IF intersects(g.ray, objects, g.distance)
             THEN SoftLight_shade_From(self, point, material, objects, i + 1,
                      output, origin.io, rays)
             ELSE SoftLight_shade_From(self, point, material, objects, i + 1,
                      output + Shading(illumination, material, g),
                      origin.io, rays + 1))

\* SoftLight::shade (lights.cc): the colour, the samplers afterwards (the
\* light's own sampler has been called), and the increments of the ray
\* counter.
SoftLight_shade(self, point, material, objects, io) ==
    SoftLight_shade_From(self, point, material, objects, 0, 0, io, 0)

\* The loop of SoftLight::shade (main.cc), on the global softSampler.
RECURSIVE main_SoftLight_shade_From(_, _, _, _, _, _, _, _)
main_SoftLight_shade_From(self, point, material, objects, i, shade, io, rays) ==
    IF i >= self.samples
    THEN [colour |-> shade, io |-> io, rays |-> rays]
    ELSE With(SampleOrigin(io, "softSampler"), LAMBDA origin :
         LET g == self.toLight[point][origin.offset]
             illumination ==
                 ColourDiv(self.colour * material.colour, self.samples)
         IN  IF main_intersects(g.ray, objects)
             THEN main_SoftLight_shade_From(self, point, material, objects, i + 1,
                      shade, origin.io, rays)
             ELSE main_SoftLight_shade_From(self, point, material, objects, i + 1,
                      shade + Shading(illumination, material, g),
                      origin.io, rays + 1))

main_SoftLight_shade(self, point, material, objects, io) ==
    main_SoftLight_shade_From(self, point, material, objects, 0, 0, io, 0)

\* PointLight::shade (main.cc): one shadow ray toward the light's position.
main_PointLight_shade(self, point, material, objects, io) ==
    LET g == self.toLight[point]
    IN  IF main_intersects(g.ray, objects)
        THEN [colour |-> 0, io |-> io, rays |-> 0]
        ELSE [colour |-> Shading(self.colour * material.colour, material, g),
              io |-> io, rays |-> 1]

-----------------------------------------------------------------------------
(* Scenes and the renderer.  An object of a scene carries, besides its     *)
(* table of intersections, its material and the reflection ray of each ray *)
(* that hits it.                                                           *)

DepthBits == 3

\* unsigned int depth: depth + 1 wraps at 2^DepthBits.
UIntModulus == 2 ^ DepthBits

\* The frames the call stack has room for.
MaxStack == UIntModulus + 2

MAX_DEPTH == 5

\* The Scalar 1 in the units of a material's reflectivity.
ReflectivityOne == 2

\* Colour * Scalar for a reflectivity.
ColourMul(c, reflectivity) == (c * reflectivity) \div ReflectivityOne

SceneObject(intersections, material, reflection) ==
    [intersect |-> intersections, material |-> material,
     reflection |-> reflection]

surface(object, point) == object.material

Scene(objects, lights) == [objects |-> objects, lights |-> lights]

Renderer(scene, camera, numDofSamples, maxRayDepth) ==
    [scene |-> scene, camera |-> camera, numDofSamples |-> numDofSamples,
     maxRayDepth |-> maxRayDepth]

\* What a call has done: its colour, the samplers afterwards, the
\* increments of the trace and ray counters, the calls of Light::shade,
\* and whether the recursion ran out of stack.
Traced(colour, io, traces, rays, shades, overflow) ==
    [colour |-> colour, io |-> io, traces |-> traces, rays |-> rays,
     shades |-> shades, overflow |-> overflow]

\* The loop over scene->lights of Renderer::trace (renderer.cc) from light
\* i on; every light of the library is a SoftLight.
RECURSIVE trace_lights(_, _, _, _, _, _)
trace_lights(lights, point, material, objects, i, acc) ==
    IF i > Len(lights) THEN acc
    ELSE With(SoftLight_shade(lights[i], point, material, objects, acc.io),
              LAMBDA s :
         trace_lights(lights, point, material, objects, i + 1,
             Traced(acc.colour + s.colour, s.io, acc.traces,
                    acc.rays + s.rays, acc.shades + 1, acc.overflow)))

\* Renderer::trace (renderer.cc) once the ray has hit an object: the
\* ambient light, the lights and the reflection.
RECURSIVE trace(_, _, _, _, _)
trace_hit(self, ray, depth, io, stack, hit) ==
    LET object == self.scene.objects[hit.closest]
        material == surface(object, ray)
        reflectivity == material.reflectivity
    IN  With(trace_lights(self.scene.lights, ray, material,
                 self.scene.objects, 1,
                 Traced(material.colour * material.ambient, io,
                        1, 0, 0, FALSE)),
             LAMBDA lit :
        IF depth < self.maxRayDepth /\ reflectivity > 0
        THEN IF stack <= 1
             THEN [lit EXCEPT !.overflow = TRUE]
             ELSE With(trace(self, object.reflection[ray],
                             (depth + 1) % UIntModulus, lit.io, stack - 1),
                       LAMBDA r :
                  Traced(lit.colour + ColourMul(r.colour, reflectivity),
                         r.io, lit.traces + r.traces, lit.rays + r.rays,
                         lit.shades + r.shades, r.overflow))
        ELSE lit)

\* Renderer::trace with a background that is not black: a miss returns
\* the colour 1.
trace_Background(self, ray, depth, io, stack) ==
    With(closestIntersect(ray, self.scene.objects), LAMBDA hit :
        IF hit.closest = nullptr
        THEN Traced(1, io, 1, 0, 0, FALSE)
        ELSE trace_hit(self, ray, depth, io, stack, hit))

\* Renderer::trace (renderer.cc), called with stack frames left.
trace(self, ray, depth, io, stack) ==
    With(closestIntersect(ray, self.scene.objects), LAMBDA hit :
        IF hit.closest = nullptr
        THEN Traced(0, io, 1, 0, 0, FALSE)
        ELSE trace_hit(self, ray, depth, io, stack, hit))

\* The loop over scene.lights of Renderer::trace (main.cc) from light i on.
RECURSIVE main_trace_lights(_, _, _, _, _, _)
main_trace_lights(lights, point, material, objects, i, acc) ==
    IF i > Len(lights) THEN acc
    ELSE With(IF lights[i].type = "SoftLight"
              THEN main_SoftLight_shade(lights[i], point, material,
                                        objects, acc.io)
              ELSE main_PointLight_shade(lights[i], point, material,
                                         objects, acc.io),
              LAMBDA s :
         main_trace_lights(lights, point, material, objects, i + 1,
             Traced(acc.colour + s.colour, s.io, acc.traces,
                    acc.rays + s.rays, acc.shades + 1, acc.overflow)))

\* Renderer::trace (main.cc): the colour so far is passed in, returned on a
\* miss, and passed on to the reflection's trace.
RECURSIVE main_trace(_, _, _, _, _, _)
main_trace(self, ray, colour, depth, io, stack) ==
    With(main_closestIntersect(ray, self.scene.objects), LAMBDA hit :
        IF hit.index = -1
        THEN Traced(colour, io, 1, 0, 0, FALSE)
        ELSE LET object == self.scene.objects[hit.index + 1]
                 material == surface(object, ray)
                 reflectivity == material.reflectivity
             IN  With(main_trace_lights(self.scene.lights, ray, material,
                          self.scene.objects, 1,
                          Traced(colour + material.colour * material.ambient,
                                 io, 1, 0, 0, FALSE)),
                      LAMBDA lit :
                 IF depth < MAX_DEPTH /\ reflectivity > 0
                 THEN IF stack <= 1
                      THEN [lit EXCEPT !.overflow = TRUE]
                      ELSE With(main_trace(self, object.reflection[ray],
                                    lit.colour, (depth + 1) % UIntModulus,
                                    lit.io, stack - 1),
                                LAMBDA r :
                           Traced(lit.colour
                                      + ColourMul(r.colour, reflectivity),
                                  r.io, lit.traces + r.traces,
                                  lit.rays + r.rays,
                                  lit.shades + r.shades, r.overflow))
                 ELSE lit))

-----------------------------------------------------------------------------
(* C7 and C8.                                                              *)

\* What each object of the call's list returns for the call's ray.
Results == [i \in 1 .. Len(args.objects) |-> intersect(args.objects[i], args.ray)]

AllNonNegative == \A i \in DOMAIN Results : Results[i] >= 0 /\ Results[i] # NaN

\* The objects among `among' that attain the smallest distance of `among'.
Nearest(among) == {i \in among : \A j \in among : Results[i] <= Results[j]}

\* The first of a non-empty set of places.
First(S) == CHOOSE i \in S : \A j \in S : i <= j

\* The result of either closestIntersect is the object at place `best' at
\* distance Results[best], or null (-1 in main.cc) when best is 0.
ReturnsObject(best) ==
    /\ fn = "closestIntersect" =>
         /\ ret.closest = (IF best = 0 THEN nullptr ELSE best)
         /\ best # 0 => ret.t = Results[best]
    /\ fn = "main::closestIntersect" =>
         /\ ret.index = best - 1
         /\ best # 0 => ret.t = Results[best]

RECURSIVE Without(_, _)
Without(objects, out) ==
    IF objects = <<>> THEN <<>>
    ELSE IF intersect(Head(objects), args.ray) \in out
         THEN Without(Tail(objects), out)
         ELSE <<Head(objects)>> \o Without(Tail(objects), out)

\* No object whose result is in `out' is returned by closestIntersect, and
\* either shadow test answers as it does for the list without those objects.
TreatedAsNotIntersected(out) ==
    /\ fn = "closestIntersect" =>
         ret.closest = nullptr \/ Results[ret.closest] \notin out
    /\ fn = "main::closestIntersect" =>
         ret.index = 0 - 1 \/ Results[ret.index + 1] \notin out
    /\ fn = "intersects" =>
         ret = intersects(args.ray, Without(args.objects, out), args.distance)
    /\ fn = "main::intersects" =>
         ret = main_intersects(args.ray, Without(args.objects, out))

NonPositive == {t \in AnyValues : t <= 0}

-----------------------------------------------------------------------------
(* Calls of the lights' shade on a surface point, a material and an object *)
(* list.  The shadow rays are rays 0 and 1; an object is near (it lies     *)
(* before both light distances), far (it lies between them) or absent on   *)
(* each of them.                                                           *)

NearT == ScalarPrecision + 1
FarT  == MaxT
NearLight == MaxT - 1
FarLight  == MaxT + 1

\* An object that returns a on ray 0 and b on every other ray.
TabObject2(a, b) == [intersect |-> [r \in Rays |-> IF r = 0 THEN a ELSE b]]

Occluders ==
    UNION { [1 .. n -> {TabObject2(a, b) : a, b \in {0, NearT, FarT}}] :
                n \in 0 .. 2 }

Geoms == [ray : 0 .. 1, distance : {NearLight, FarLight},
          lambert : 0 .. 1, phong : {1}]

\* A SoftLight whose origins in cell 0 have geometry g0, the others g1.
SoftLights ==
    { SoftLight(12, n, [r \in Rays |-> [o \in Offsets |->
                                            IF o = 0 THEN g0 ELSE g1]],
                "light1") :
        n \in 1 .. MaxSamples, g0 \in Geoms, g1 \in Geoms }

PointLights == { PointLight(12, [r \in Rays |-> g]) : g \in Geoms }

\* Every sampler at the seed s.
AllAt(s) == [id \in SamplerIds |-> s]

\* The seed of a sampler after k origins have been sampled from it.
RECURSIVE SeedAfter(_, _)
SeedAfter(seed, k) ==
    IF k = 0 THEN seed
    ELSE SampleOrigin(Sequential(AllAt(SeedAfter(seed, k - 1))),
                      "light1").io.mem["light1"]

MaxPriorSamples == 3

ShadeInit ==
    /\ fn = NoCall
    /\ args \in [light : SoftLights \cup PointLights,
                 point : {0},
                 material : {Material(1, 0, 2, 3, 0)},
                 objects : Occluders,
                 seed : {SeedAfter(UniformDistribution, k) :
                             k \in 0 .. MaxPriorSamples}]
    /\ ret = 0
    /\ NoRender

CallSoftLightShade ==
    /\ fn = NoCall
    /\ args.light.type = "SoftLight"
    /\ fn' = "SoftLight::shade"
    /\ ret' = SoftLight_shade(args.light, args.point, args.material,
                              args.objects, Sequential(AllAt(args.seed)))
    /\ UNCHANGED <<args, renderVars, regionVars, heapVars, trigVars>>

CallMainSoftLightShade ==
    /\ fn = NoCall
    /\ args.light.type = "SoftLight"
    /\ fn' = "main::SoftLight::shade"
    /\ ret' = main_SoftLight_shade(args.light, args.point, args.material,
                                   args.objects, Sequential(AllAt(args.seed)))
    /\ UNCHANGED <<args, renderVars, regionVars, heapVars, trigVars>>

CallMainPointLightShade ==
    /\ fn = NoCall
    /\ args.light.type = "PointLight"
    /\ fn' = "main::PointLight::shade"
    /\ ret' = main_PointLight_shade(args.light, args.point, args.material,
                                    args.objects, Sequential(AllAt(args.seed)))
    /\ UNCHANGED <<args, renderVars, regionVars, heapVars, trigVars>>

ShadeNext ==
    \/ CallSoftLightShade
    \/ CallMainSoftLightShade
    \/ CallMainPointLightShade

SpecShade == ShadeInit /\ [][ShadeNext]_vars

-----------------------------------------------------------------------------
(* C9.                                                                     *)

\* The geometry of sample i of the call's SoftLight.
SampleGeom(i) ==
    LET io == Sequential(AllAt(SeedAfter(args.seed, i)))
    IN  args.light.toLight[args.point][SampleOrigin(io, "light1").offset]

\* Some object intersects the shadow ray of geometry g at a positive
\* distance smaller than the distance to the light position.
Occluded(g) ==
    \E k \in 1 .. Len(args.objects) :
        LET t == intersect(args.objects[k], g.ray)
        IN  t > 0 /\ t < g.distance

RECURSIVE SumOver(_, _)
SumOver(S, f) ==
    IF S = {} THEN 0
    ELSE LET i == CHOOSE j \in S : TRUE
         IN  f[i] + SumOver(S \ {i}, f)

\* C9: an occluded PointLight contributes the zero colour.  SoftLight::shade
\* (lights.cc) returns the sum over its unoccluded samples of the sample's
\* Lambert and Blinn-Phong terms on illumination = colour * material colour
\* / samples: occluded samples add nothing, whatever the other samples are,
\* and the result is zero when every sample is occluded.  In main.cc an
\* occluded sample adds nothing either: nothing is cast for it, and the
\* result is zero when every sample is occluded.
C9_OccludedContributesZero ==
    /\ fn = "main::PointLight::shade" =>
         (Occluded(args.light.toLight[args.point]) => ret.colour = 0 /\ ret.rays = 0)
    /\ fn \in {"SoftLight::shade", "main::SoftLight::shade"} =>
         LET n == args.light.samples
             clear == {i \in 0 .. (n - 1) : ~Occluded(SampleGeom(i))}
             illumination ==
                 ColourDiv(args.light.colour * args.material.colour, n)
             term == [i \in 0 .. (n - 1) |->
                         Shading(illumination, args.material, SampleGeom(i))]
         IN  /\ fn = "SoftLight::shade" =>
                  /\ ret.colour = SumOver(clear, term)
                  /\ ret.rays = Cardinality(clear)
                  /\ illumination * n = args.light.colour * args.material.colour
             /\ fn = "main::SoftLight::shade" =>
                  /\ ret.rays <= Cardinality(clear)
                  /\ ret.colour <= SumOver(clear, term)
             /\ clear = {} => ret.colour = 0

\* SoftLight::shade (lights.cc) has returned a nonzero colour for a light
\* whose first sample is occluded and whose later sample is not.
C9_Witness ==
    /\ fn = "SoftLight::shade"
    /\ args.light.samples >= 2
    /\ Occluded(SampleGeom(0))
    /\ \E i \in 1 .. (args.light.samples - 1) : ~Occluded(SampleGeom(i))
    /\ ret.colour > 0


-----------------------------------------------------------------------------
(* Calls of trace on a primary ray.  A scene has a mirror and a matte      *)
(* object, each near, far or absent on rays 0 and 1; a ray that hits is    *)
(* reflected into itself or into the next ray.                             *)

Mirror == Material(1, 1, 2, 3, 1)
Matte  == Material(1, 1, 2, 3, 0)

Reflections == { [r \in Rays |-> r], [r \in Rays |-> (r + 1) % NumRays] }

\* The geometry toward a light at the surface point named r.
TraceGeom(r) ==
    [ray |-> (r + 1) % NumRays, distance |-> NearLight, lambert |-> 1,
     phong |-> 1]

TraceLights ==
    { << >>,
      << SoftLight(12, 2, [r \in Rays |-> [o \in Offsets |-> TraceGeom(r)]],
                   "light1") >>,
      << PointLight(12, [r \in Rays |-> TraceGeom(r)]) >> }

TraceScenes ==
    { Scene(<< SceneObject(TabObject2(a, b).intersect, Mirror, reflection),
               SceneObject(TabObject2(c, d).intersect, Matte, reflection) >>,
            lights) :
        a \in {0, NearT, FarT}, b \in {0, NearT, FarT},
        c \in {0, NearT, FarT}, d \in {0, NearT, FarT},
        reflection \in Reflections, lights \in TraceLights }

NoCamera == "none"

\* maxRayDepth is a size_t: it can exceed every unsigned int.
TraceInit ==
    /\ fn = NoCall
    /\ args \in [self : { Renderer(scene, NoCamera, 1, maxRayDepth) :
                              scene \in TraceScenes,
                              maxRayDepth \in 0 .. UIntModulus },
                 ray : Rays]
    /\ ret = 0
    /\ NoRender

CallTrace ==
    /\ fn = NoCall
    /\ \A i \in 1 .. Len(args.self.scene.lights) :
           args.self.scene.lights[i].type = "SoftLight"
    /\ fn' = "Renderer::trace"
    /\ ret' = trace(args.self, args.ray, 0,
                    Sequential(AllAt(UniformDistribution)), MaxStack)
    /\ UNCHANGED <<args, renderVars, regionVars, heapVars, trigVars>>

CallMainTrace ==
    /\ fn = NoCall
    /\ fn' = "main::Renderer::trace"
    /\ ret' = main_trace(args.self, args.ray, 0, 0,
                         Sequential(AllAt(UniformDistribution)), MaxStack)
    /\ UNCHANGED <<args, renderVars, regionVars, heapVars, trigVars>>

TraceNext ==
    \/ CallTrace
    \/ CallMainTrace

SpecTrace == TraceInit /\ [][TraceNext]_vars

-----------------------------------------------------------------------------
(* C1.                                                                     *)

\* The material the ray hits first, or Matte's reflectivity 0 on a miss.
FirstReflectivity(ray) ==
    LET hit == closestIntersect(ray, args.self.scene.objects)
    IN  IF hit.closest = nullptr THEN 0
        ELSE args.self.scene.objects[hit.closest].material.reflectivity

\* The consecutive hits on surfaces with reflectivity > 0 from ray on,
\* counted up to cap.
RECURSIVE ConsecutiveReflective(_, _)
ConsecutiveReflective(ray, cap) ==
    IF cap = 0 \/ FirstReflectivity(ray) = 0 THEN 0
    ELSE LET hit == closestIntersect(ray, args.self.scene.objects)
         IN  1 + ConsecutiveReflective(
                     args.self.scene.objects[hit.closest].reflection[ray],
                     cap - 1)

TraceCalled == fn \in {"Renderer::trace", "main::Renderer::trace"}

DepthLimit == IF fn = "Renderer::trace" THEN args.self.maxRayDepth ELSE MAX_DEPTH

\* C1: for every scene, primary ray and maxRayDepth = N, trace returns
\* without exhausting the stack, its recursive calls are as many as the
\* consecutive hits on surfaces with reflectivity > 0, capped at N (none
\* when the first surface has reflectivity 0), and there are at most N + 1
\* trace invocations.
C1_ReflectionsCappedAtMaxRayDepth ==
    TraceCalled =>
        /\ ~ret.overflow
        /\ ret.traces - 1 = ConsecutiveReflective(args.ray, DepthLimit)
        /\ FirstReflectivity(args.ray) = 0 => ret.traces = 1
        /\ ret.traces <= DepthLimit + 1


-----------------------------------------------------------------------------
(* Images, the camera and the sampling of points and regions.  A size_t is *)
(* SizeBits wide.  Image coordinates are fixed-point, PixelOne to a pixel, *)
(* which makes the subregions of renderRegion exact.  The camera's film    *)
(* gives, for a pixel and a cell of the lens, the ray traced.              *)

SizeBits == 6
SizeModulus == 2 ^ SizeBits

\* x - 1 and y - 1 on a size_t.
SizeSub(a, b) == (a - b + SizeModulus) % SizeModulus

image_index(x, y, width) == (y * width + x) % SizeModulus
image_x(i, width) == i % width
image_y(i, width) == i \div width

PixelColourMax == 255

\* Colour -> Pixel: clamp to [0, 1] and scale.
Pixel(value) ==
    IF value < 0 THEN 0
    ELSE IF value > PixelColourMax THEN PixelColourMax ELSE value

Image(width, height, inverted) ==
    [data |-> [i \in 0 .. (width * height - 1) |-> 0],
     width |-> width, height |-> height, size |-> width * height,
     inverted |-> inverted]

\* Image::set(x, y, value) with the row of an inverted image taken to be
\* height - 1 whatever y is.
Image_set_xy_LastRow(self, x, y) ==
    LET row == IF self.inverted THEN self.height - 1 ELSE y
    IN  image_index(x, row, self.width)

\* The slot Image::set(x, y, value) passes to _set.
Image_set_xy(self, x, y) ==
    LET row == IF self.inverted THEN SizeSub(SizeSub(self.height, 1), y)
               ELSE y
    IN  image_index(x, row, self.width)

\* The slot Image::set(index, value) passes to _set.
Image_set(self, i) ==
    Image_set_xy(self, image_x(i, self.width), image_y(i, self.width))

\* Image::_set: the pixel data afterwards.
Image__set(self, slot, value) == [self.data EXCEPT ![slot] = Pixel(value)]

\* Image::set (main.cc) with the row left out of the slot.
main_Image_set_NoRow(self, x, y) == x

\* The slot Image::set (main.cc) writes.
main_Image_set(self, x, y) ==
    LET row == IF self.inverted THEN SizeSub(SizeSub(self.height, 1), y)
               ELSE y
    IN  (row * self.width + x) % SizeModulus

PixelOne == 256

maxPixelDiff     == 0
maxSubpixelDiff  == 0
maxSubpixelDepth == 3

\* Colour::diff.
Colour_diff(a, b) == IF a < b THEN b - a ELSE a - b

Camera(film) == [film |-> film]

\* lens.aperture(): one call of the lens's sampler and the cell of the
\* point on the lens.
UniformDiskDistribution_call(io) ==
    With(Sample(io, "aperture"), LAMBDA a :
        [io |-> a.io, offset |-> OffsetOf(a.value, 0, 0)])

\* What the calls a and then t have done together, with the colour given.
After(a, t, colour) ==
    Traced(colour, t.io, a.traces + t.traces, a.rays + t.rays,
           a.shades + t.shades, a.overflow \/ t.overflow)

\* The loop of Renderer::renderPoint from depth-of-field sample i on.
RECURSIVE renderPoint_From(_, _, _, _, _)
renderPoint_From(self, x, y, i, output) ==
    IF i >= self.numDofSamples THEN output
    ELSE With(UniformDiskDistribution_call(output.io), LAMBDA a :
         With(trace(self,
                    self.camera.film[<<x \div PixelOne, y \div PixelOne>>][a.offset],
                    0, a.io, MaxStack),
              LAMBDA t :
         renderPoint_From(self, x, y, i + 1,
             After(output, t,
                   output.colour + ColourDiv(t.colour, self.numDofSamples)))))

\* Renderer::renderPoint at the image point (x, y).
renderPoint(self, x, y, io) ==
    renderPoint_From(self, x, y, 0, Traced(0, io, 0, 0, 0, FALSE))

\* The second loop of Renderer::renderRegion from subregion i on; the
\* colour of acc is the sum of the supersamples so far.
RECURSIVE renderRegion(_, _, _, _, _, _)
RECURSIVE renderRegion_Sub(_, _, _, _, _, _, _, _, _)
renderRegion_Sub(self, samples, mean, subregion_x, subregion_y, regionSize, depth, i, acc) ==
    IF i >= 4 THEN [acc EXCEPT !.colour = ColourDiv(@, 4)]
    ELSE IF Colour_diff(mean, samples[i]) > maxSubpixelDiff
    THEN With(renderRegion(self, subregion_x[i], subregion_y[i],
                           regionSize \div 4, depth + 1, acc.io),
              LAMBDA r :
         renderRegion_Sub(self, samples, mean, subregion_x, subregion_y,
                          regionSize, depth, i + 1,
                          After(acc, r, acc.colour + r.colour)))
    ELSE renderRegion_Sub(self, samples, mean, subregion_x, subregion_y,
                          regionSize, depth, i + 1,
                          [acc EXCEPT !.colour = @ + samples[i]])

\* Renderer::renderRegion: four samples at the centres of the subregions,
\* and a deeper region for each sample that differs from their mean.
renderRegion(self, regionX, regionY, regionSize, depth, io) ==
    LET subregionSize == regionSize \div 2
        subregionOffset == subregionSize \div 2
        subregion_x == [n \in 0 .. 3 |->
                           regionX + image_x(n, 2) * subregionSize]
        subregion_y == [n \in 0 .. 3 |->
                           regionY + image_y(n, 2) * subregionSize]
    IN  With(renderPoint(self, subregion_x[0] + subregionOffset,
                         subregion_y[0] + subregionOffset, io), LAMBDA s0 :
        With(renderPoint(self, subregion_x[1] + subregionOffset,
                         subregion_y[1] + subregionOffset, s0.io), LAMBDA s1 :
        With(renderPoint(self, subregion_x[2] + subregionOffset,
                         subregion_y[2] + subregionOffset, s1.io), LAMBDA s2 :
        With(renderPoint(self, subregion_x[3] + subregionOffset,
                         subregion_y[3] + subregionOffset, s2.io), LAMBDA s3 :
        LET samples == [n \in 0 .. 3 |->
                           <<s0.colour, s1.colour, s2.colour, s3.colour>>[n + 1]]
            mean == ColourDiv(s0.colour + s1.colour + s2.colour + s3.colour, 4)
            taken == After(After(After(s0, s1, 0), s2, 0), s3, 0)
        IN  IF depth >= maxSubpixelDepth
            THEN [taken EXCEPT !.colour = mean]
            ELSE renderRegion_Sub(self, samples, mean, subregion_x,
                                  subregion_y, regionSize, depth, 0, taken)))))

\* The indices render takes for the eight neighbours of pixel (x, y).
neighbours(x, y, borderedWidth) ==
    << image_index(SizeSub(x, 1), SizeSub(y, 1), borderedWidth),
       image_index(x,             SizeSub(y, 1), borderedWidth),
       image_index(x + 1,         SizeSub(y, 1), borderedWidth),
       image_index(SizeSub(x, 1), y,             borderedWidth),
       image_index(x + 1,         y,             borderedWidth),
       image_index(SizeSub(x, 1), y + 1,         borderedWidth),
       image_index(x,             y + 1,         borderedWidth),
       image_index(x + 1,         y + 1,         borderedWidth) >>

\* What a read beyond the end of sampled can find there.
Garbage == {0, 1}

\* sampled[neighbours[i]]: beyond[i] when neighbours[i] is no index of the
\* array.
Neighbour(array, n, i, beyond) ==
    IF n \in DOMAIN array THEN array[n] ELSE beyond[i]

\* The neighbours looked at for a pixel: up to and including the first
\* one that differs from it by more than maxPixelDiff.
LookedAt(array, pixel, ns, beyond) ==
    { i \in 1 .. 8 :
        \A j \in 1 .. (i - 1) :
            Colour_diff(pixel, Neighbour(array, ns[j], j, beyond))
                <= maxPixelDiff }

ANTIALIASING_SAMPLE_COUNT == 0

\* The loop of Renderer::supersample (main.cc) from extra sample i on, in
\* the build whose ANTIALIASING_SAMPLE_COUNT is count.
RECURSIVE main_supersample_From(_, _, _, _, _)
main_supersample_From(self, ray, i, sample, count) ==
    IF i >= count
    THEN [sample EXCEPT !.colour = ColourDiv(@, count + 1)]
    ELSE With(Sample(sample.io, "sampler"), LAMBDA x :
         With(Sample(x.io, "sampler"), LAMBDA y :
         With(main_trace(self, (ray + OffsetOf(x.value, y.value, 0)) % NumRays,
                         0, 0, y.io, MaxStack),
              LAMBDA t :
         main_supersample_From(self, ray, i + 1,
             After(sample, t, sample.colour + t.colour), count))))

\* Renderer::supersample without the trace of the origin ray.
main_supersample_Built_NoOrigin(self, ray, io, count) ==
    main_supersample_From(self, ray, 0, Traced(0, io, 0, 0, 0, FALSE), count)

\* Renderer::supersample (main.cc) in the build whose
\* ANTIALIASING_SAMPLE_COUNT is count.
main_supersample_Built(self, ray, io, count) ==
    main_supersample_From(self, ray, 0, main_trace(self, ray, 0, 0, io, MaxStack), count)

\* Renderer::supersample (main.cc).
main_supersample(self, ray, io) ==
    main_supersample_Built(self, ray, io, ANTIALIASING_SAMPLE_COUNT)

-----------------------------------------------------------------------------
(* Renderer::render.  tbb::parallel_for hands the indices out in order to  *)
(* its worker threads, of which there are 1 to NumWorkers; a worker runs   *)
(* the body of one index at a time.  A                                     *)
(* body's call of a sampler is three steps on the shared seed, the load    *)
(* and the store of `seed *= mult` and the load of `seed % longMax`; the   *)
(* worker keeps the values its body's calls have returned (drawn) and runs *)
(* the body on them to find the body's next call or its result.  The read  *)
(* of sampled[] at an index beyond the array finds a value of Garbage or   *)
(* stops the program.                                                      *)

NumWorkers    == 2
MaxWidth      == 2
MaxHeight     == 2
MaxDofSamples == 2

Workers == DOMAIN workers

Idle ==
    [pc |-> "idle", index |-> 0, drawn |-> << >>, call |-> NoSampler,
     loaded |-> 0]

borderedWidth  == image.width + 2
borderedHeight == image.height + 2
borderedSize   == borderedWidth * borderedHeight

\* The indices of the parallel_for are 0 .. Bodies - 1.
Bodies == IF program = "rt" THEN borderedSize ELSE image.height * image.width

\* The image point at which the parallel_for samples sampled[i]: with x
\* and y the coordinates of i in the bordered image, (x + .5, y + .5).
SamplePoint(i) ==
    <<image_x(i, borderedWidth) * PixelOne + PixelOne \div 2,
      image_y(i, borderedWidth) * PixelOne + PixelOne \div 2>>

\* The body of the parallel_for for index i, its sampler calls made on io.
BodyOn(i, io) ==
    IF program = "rt"
    THEN renderPoint(renderer, SamplePoint(i)[1], SamplePoint(i)[2], io)
    ELSE LET y == i \div image.width
             x == i % image.width
             ray == renderer.camera.film[<<x, y>>][0]
         IN  main_supersample(renderer, ray, io)

\* The body for index i on the values its sampler calls have returned.
Body(i, drawn) == BodyOn(i, Replay(drawn))

\* The profiling counters.  The increments a body makes are applied in one
\* step when the body ends: an atomic increment is indivisible, and
\* increments commute, so the totals are those of the increments applied
\* one by one wherever the body made them.

\* n increments of which one is lost when the counter is not 0.
atomic_increment_Lost(counter, n) ==
    IF counter > 0 /\ n > 0 THEN counter + n - 1 ELSE counter + n

\* traceCounter++, rayCounter++ on a std::atomic<long long> (main.cc), n times
atomic_increment(counter, n) == counter + n

\* profiling::counters::incTraceCount(), n times
incTraceCount(counter, n) == counter + n

\* profiling::counters::incRayCount(), n times
incRayCount(counter, n) == counter + n

Render ==
    /\ program = "rt"
    /\ pc = "idle"
    /\ pc' = "sample"
    /\ sampled' = [i \in 0 .. (borderedSize - 1) |-> 0]
    /\ UNCHANGED <<pureVars, regionVars, heapVars, trigVars, program, renderer, image, next, workers,
                   superSampled, index, samplers, traceCounter, rayCounter, traceCalls, lightSamples,
                   shadeCalls, writes, seedWriters, slotWriters>>

MainRender ==
    /\ program = "main"
    /\ pc = "idle"
    /\ pc' = "sample"
    /\ UNCHANGED <<pureVars, regionVars, heapVars, trigVars, program, renderer, image, next, workers, sampled,
                   superSampled, index, samplers, traceCounter, rayCounter, traceCalls, lightSamples,
                   shadeCalls, writes, seedWriters, slotWriters>>

\* A worker takes the next index.
Claim(w) ==
    /\ pc = "sample"
    /\ workers[w].pc = "idle"
    /\ next < Bodies
    /\ workers' = [workers EXCEPT ![w] = [Idle EXCEPT !.pc = "run",
                                                       !.index = next]]
    /\ next' = next + 1
    /\ UNCHANGED <<pureVars, regionVars, heapVars, trigVars, program, renderer, image, pc, sampled,
                   superSampled, index, samplers, traceCounter, rayCounter, traceCalls, lightSamples,
                   shadeCalls, writes, seedWriters, slotWriters>>

\* seed *= mult: the load.
BodyLoad(w) ==
    /\ pc = "sample"
    /\ workers[w].pc = "run"
    /\ LET r == Body(workers[w].index, workers[w].drawn)
       IN  /\ r.io.call # NoSampler
           /\ workers' = [workers EXCEPT ![w].pc = "store",
                                         ![w].call = r.io.call,
                                         ![w].loaded = samplers[r.io.call]]
    /\ UNCHANGED <<pureVars, regionVars, heapVars, trigVars, program, renderer, image, pc, next, sampled,
                   superSampled, index, samplers, traceCounter, rayCounter, traceCalls, lightSamples,
                   shadeCalls, writes, seedWriters, slotWriters>>

\* seed *= mult: the store.
BodyStore(w) ==
    /\ pc = "sample"
    /\ workers[w].pc = "store"
    /\ samplers' = [samplers EXCEPT ![workers[w].call] =
                                        NextSeed(workers[w].loaded)]
    /\ seedWriters' = [seedWriters EXCEPT ![workers[w].call] = @ \cup {w}]
    /\ workers' = [workers EXCEPT ![w].pc = "read", ![w].loaded = 0]
    /\ UNCHANGED <<pureVars, regionVars, heapVars, trigVars, program, renderer, image, pc, next, sampled,
                   superSampled, index, traceCounter, rayCounter, traceCalls, lightSamples, shadeCalls,
                   writes, slotWriters>>

\* r = seed % longMax / divisor, on the seed found there now.
BodyRead(w) ==
    /\ pc = "sample"
    /\ workers[w].pc = "read"
    /\ workers' = [workers EXCEPT
                      ![w].pc = "run",
                      ![w].drawn = Append(@, ValueOf(samplers[workers[w].call])),
                      ![w].call = NoSampler]
    /\ UNCHANGED <<pureVars, regionVars, heapVars, trigVars, program, renderer, image, pc, next, sampled,
                   superSampled, index, samplers, traceCounter, rayCounter, traceCalls, lightSamples,
                   shadeCalls, writes, seedWriters, slotWriters>>

\* sampled[index] = renderPoint(x + .5, y + .5, transform)
BodyWrite(w) ==
    /\ program = "rt"
    /\ pc = "sample"
    /\ workers[w].pc = "run"
    /\ LET r == Body(workers[w].index, workers[w].drawn)
       IN  /\ r.io.call = NoSampler
           /\ sampled' = [sampled EXCEPT ![workers[w].index] = r.colour]
           /\ slotWriters' = slotWriters
                                 \cup {<<workers[w].index, workers[w].index>>}
           /\ traceCounter' = incTraceCount(traceCounter, r.traces)
           /\ rayCounter' = incRayCount(rayCounter, r.rays)
           /\ traceCalls' = traceCalls + r.traces
           /\ lightSamples' = lightSamples + r.rays
           /\ shadeCalls' = shadeCalls + r.shades
    /\ workers' = [workers EXCEPT ![w] = Idle]
    /\ UNCHANGED <<pureVars, regionVars, heapVars, trigVars, program, renderer, image, pc, next, superSampled,
                   index, samplers, writes, seedWriters>>

\* image.set(x, y, supersample(ray))
MainBodyWrite(w) ==
    /\ program = "main"
    /\ pc = "sample"
    /\ workers[w].pc = "run"
    /\ LET r == Body(workers[w].index, workers[w].drawn)
           y == workers[w].index \div image.width
           x == workers[w].index % image.width
           slot == main_Image_set(image, x, y)
       IN  /\ r.io.call = NoSampler
           /\ slot \in DOMAIN image.data
           /\ image' = [image EXCEPT !.data[slot] = Pixel(r.colour)]
           /\ writes' = [writes EXCEPT ![slot] = @ + 1]
           /\ slotWriters' = slotWriters \cup {<<workers[w].index, slot>>}
           /\ traceCounter' = atomic_increment(traceCounter, r.traces)
           /\ rayCounter' = atomic_increment(rayCounter, r.rays)
           /\ traceCalls' = traceCalls + r.traces
           /\ lightSamples' = lightSamples + r.rays
           /\ shadeCalls' = shadeCalls + r.shades
    /\ workers' = [workers EXCEPT ![w] = Idle]
    /\ UNCHANGED <<pureVars, regionVars, heapVars, trigVars, program, renderer, pc, next, sampled,
                   superSampled, index, samplers, seedWriters>>

\* Every index of the parallel_for has been handed out.
Joined_Early == next = Bodies

\* Every body of the parallel_for has run.
Joined == next = Bodies /\ \A w \in Workers : workers[w].pc = "idle"

Join ==
    /\ program = "rt"
    /\ pc = "sample"
    /\ Joined
    /\ pc' = "supersample"
    /\ superSampled' = [i \in 0 .. (image.size - 1) |-> 0]
    /\ index' = 0
    /\ UNCHANGED <<pureVars, regionVars, heapVars, trigVars, program, renderer, image, next, workers, sampled,
                   samplers, traceCounter, rayCounter, traceCalls, lightSamples, shadeCalls, writes,
                   seedWriters, slotWriters>>

MainJoin ==
    /\ program = "main"
    /\ pc = "sample"
    /\ Joined
    /\ pc' = "done"
    /\ UNCHANGED <<pureVars, regionVars, heapVars, trigVars, program, renderer, image, next, workers, sampled,
                   superSampled, index, samplers, traceCounter, rayCounter, traceCalls, lightSamples,
                   shadeCalls, writes, seedWriters, slotWriters>>

\* The pixel of the supersampling loop and the indices of its neighbours.
PixelX == image_x(index, image.width)
PixelY == image_y(index, image.width)
CentrePixel == sampled[image_index(PixelX + 1, PixelY + 1, borderedWidth)]
PixelNeighbours == neighbours(PixelX, PixelY, borderedWidth)

\* The neighbours whose index lies beyond sampled.
Beyond == { i \in 1 .. 8 : PixelNeighbours[i] \notin DOMAIN sampled }

\* Whether a neighbour of the pixel differs from it by more than
\* maxPixelDiff, with beyond found beyond the array.
Differs(beyond) ==
    \E i \in LookedAt(sampled, CentrePixel, PixelNeighbours, beyond) :
        Colour_diff(CentrePixel,
                    Neighbour(sampled, PixelNeighbours[i], i, beyond))
            > maxPixelDiff

\* One pass of render's loop over the pixels: the pixel is supersampled
\* with renderRegion when a neighbour differs from it.
Supersample ==
    /\ pc = "supersample"
    /\ index < image.size
    /\ \E differs \in { Differs(beyond) : beyond \in [Beyond -> Garbage] } :
           IF differs
           THEN LET r == renderRegion(renderer, PixelX * PixelOne,
                                      PixelY * PixelOne, PixelOne, 0,
                                      Sequential(samplers))
                IN  /\ superSampled' = [superSampled EXCEPT ![index] = r.colour]
                    /\ samplers' = r.io.mem
                    /\ traceCounter' = incTraceCount(traceCounter, r.traces)
                    /\ rayCounter' = incRayCount(rayCounter, r.rays)
                    /\ traceCalls' = traceCalls + r.traces
                    /\ lightSamples' = lightSamples + r.rays
                    /\ shadeCalls' = shadeCalls + r.shades
           ELSE /\ superSampled' = [superSampled EXCEPT ![index] = CentrePixel]
                /\ UNCHANGED <<samplers, traceCounter, rayCounter, traceCalls, lightSamples, shadeCalls>>
    /\ index' = index + 1
    /\ UNCHANGED <<pureVars, regionVars, heapVars, trigVars, program, renderer, image, pc, next, workers,
                   sampled, writes, seedWriters, slotWriters>>

\* A read of sampled[] beyond the array stops the program.
SupersampleFault ==
    /\ pc = "supersample"
    /\ index < image.size
    /\ \E beyond \in [Beyond -> Garbage] :
           LookedAt(sampled, CentrePixel, PixelNeighbours, beyond) \cap Beyond
               # {}
    /\ pc' = "crashed"
    /\ UNCHANGED <<pureVars, regionVars, heapVars, trigVars, program, renderer, image, next, workers, sampled,
                   superSampled, index, samplers, traceCounter, rayCounter, traceCalls, lightSamples,
                   shadeCalls, writes, seedWriters, slotWriters>>

\* delete[] sampled
EndSupersample ==
    /\ pc = "supersample"
    /\ index = image.size
    /\ sampled' = << >>
    /\ pc' = "set"
    /\ index' = 0
    /\ UNCHANGED <<pureVars, regionVars, heapVars, trigVars, program, renderer, image, next, workers,
                   superSampled, samplers, traceCounter, rayCounter, traceCalls, lightSamples,
                   shadeCalls, writes, seedWriters, slotWriters>>

\* image->set(index, superSampled[index])
Set ==
    /\ pc = "set"
    /\ index < image.size
    /\ LET slot == Image_set(image, index)
       IN  /\ slot \in DOMAIN image.data
           /\ image' = [image EXCEPT
                           !.data = Image__set(image, slot, superSampled[index])]
           /\ writes' = [writes EXCEPT ![slot] = @ + 1]
    /\ index' = index + 1
    /\ UNCHANGED <<pureVars, regionVars, heapVars, trigVars, program, renderer, pc, next, workers, sampled,
                   superSampled, samplers, traceCounter, rayCounter, traceCalls, lightSamples,
                   shadeCalls, seedWriters, slotWriters>>

\* delete[] superSampled, and render returns.
Return ==
    /\ pc = "set"
    /\ index = image.size
    /\ superSampled' = << >>
    /\ pc' = "done"
    /\ UNCHANGED <<pureVars, regionVars, heapVars, trigVars, program, renderer, image, next, workers, sampled,
                   index, samplers, traceCounter, rayCounter, traceCalls, lightSamples, shadeCalls,
                   writes, seedWriters, slotWriters>>

\* The drivers: rt::render (rt.cc) and main (main.cc).  Once render has
\* returned they open the output file, write the image to it and close it.

\* out = fopen(path, "w"), and Image::write prints the header.
Fopen ==
    /\ pc = "done"
    /\ pc' = "write"
    /\ index' = 0
    /\ UNCHANGED <<pureVars, regionVars, heapVars, trigVars, program, renderer, image, next, workers, sampled,
                   superSampled, samplers, traceCounter, rayCounter, traceCalls, lightSamples,
                   shadeCalls, writes, seedWriters, slotWriters>>

\* fopen returns NULL, and the fprintf of Image::write on it stops the
\* program.
FopenFault ==
    /\ pc = "done"
    /\ pc' = "crashed"
    /\ UNCHANGED <<pureVars, regionVars, heapVars, trigVars, program, renderer, image, next, workers, sampled,
                   superSampled, index, samplers, traceCounter, rayCounter, traceCalls, lightSamples,
                   shadeCalls, writes, seedWriters, slotWriters>>

\* One pass of the loop of Image::write (rt.cc's image->write(out)): pixel
\* index goes to the file.
Image_write ==
    /\ program = "rt"
    /\ pc = "write"
    /\ index < image.size
    /\ index' = index + 1
    /\ UNCHANGED <<pureVars, regionVars, heapVars, trigVars, program, renderer, image, pc, next, workers, sampled,
                   superSampled, samplers, traceCounter, rayCounter, traceCalls, lightSamples,
                   shadeCalls, writes, seedWriters, slotWriters>>

\* One pass of the loop of Image::write (main.cc): pixel index goes to the
\* file.
main_Image_write ==
    /\ program = "main"
    /\ pc = "write"
    /\ index < image.height * image.width
    /\ index' = index + 1
    /\ UNCHANGED <<pureVars, regionVars, heapVars, trigVars, program, renderer, image, pc, next, workers, sampled,
                   superSampled, samplers, traceCounter, rayCounter, traceCalls, lightSamples,
                   shadeCalls, writes, seedWriters, slotWriters>>

\* fclose(out)
Fclose ==
    /\ pc = "write"
    /\ index = image.height * image.width
    /\ pc' = "closed"
    /\ UNCHANGED <<pureVars, regionVars, heapVars, trigVars, program, renderer, image, next, workers, sampled,
                   superSampled, index, samplers, traceCounter, rayCounter, traceCalls, lightSamples,
                   shadeCalls, writes, seedWriters, slotWriters>>

\* delete renderer
DeleteRenderer ==
    /\ program = "rt"
    /\ pc = "closed"
    /\ deleted' = [deleted EXCEPT !["renderer"] = @ + 1]
    /\ pc' = "delete image"
    /\ UNCHANGED <<pureVars, regionVars, trigVars, program, renderer, image, next,
                   workers, sampled, superSampled, index, samplers,
                   traceCounter, rayCounter, traceCalls, lightSamples,
                   shadeCalls, writes, seedWriters, slotWriters, stale,
                   printed>>

\* delete image
DeleteImage ==
    /\ pc = "delete image"
    /\ deleted' = [deleted EXCEPT !["image"] = @ + 1]
    /\ pc' = "report"
    /\ UNCHANGED <<pureVars, regionVars, trigVars, program, renderer, image, next,
                   workers, sampled, superSampled, index, samplers,
                   traceCounter, rayCounter, traceCalls, lightSamples,
                   shadeCalls, writes, seedWriters, slotWriters, stale,
                   printed>>

\* What a read of the size of a deleted Image can find: the size, or
\* whatever has been put into the freed memory.
FreedSizes == {0, image.size, SizeModulus - 1}

\* The objects the performance report reads of: image->size.
ReportReads == {"image"}

\* The performance report: image->size is read for the pixel rate, the
\* traces per pixel and the summary.
Report ==
    /\ pc = "report"
    /\ stale' = stale \cup {object \in ReportReads : deleted[object] > 0}
    /\ printed' \in (IF deleted["image"] > 0 THEN FreedSizes ELSE {image.size})
    /\ pc' = "reported"
    /\ UNCHANGED <<pureVars, regionVars, trigVars, program, renderer, image, next,
                   workers, sampled, superSampled, index, samplers,
                   traceCounter, rayCounter, traceCalls, lightSamples,
                   shadeCalls, writes, seedWriters, slotWriters, deleted>>

\* The read of image->size of a deleted Image stops the program.
ReportFault ==
    /\ pc = "report"
    /\ deleted["image"] > 0
    /\ stale' = stale \cup {object \in ReportReads : deleted[object] > 0}
    /\ pc' = "crashed"
    /\ UNCHANGED <<pureVars, regionVars, trigVars, program, renderer, image, next,
                   workers, sampled, superSampled, index, samplers,
                   traceCounter, rayCounter, traceCalls, lightSamples,
                   shadeCalls, writes, seedWriters, slotWriters, deleted,
                   printed>>

\* The pixels of the film: those of the largest image and its border.
FilmPixels == (0 .. (MaxWidth + 1)) \X (0 .. (MaxHeight + 1))

\* The pixels (1, 1) and (2, 2) look along ray 0, the others along ray 1.
OnAxis(p) == p[1] = p[2] /\ p[1] \in {0, 1}

\* A lens of aperture 0: the ray of a pixel is the same from every cell.
Pinhole ==
    Camera([p \in FilmPixels |-> [o \in Offsets |->
                                     IF OnAxis(p) THEN 0 ELSE 1]])

\* A lens of aperture > 0: on the axis the ray depends on the cell.
WideLens ==
    Camera([p \in FilmPixels |-> [o \in Offsets |->
                                     IF OnAxis(p) THEN o % 2 ELSE 1]])

\* A light of radius > 0: the surface is lit differently from each cell.
DiskLight ==
    SoftLight(12, 1,
              [r \in Rays |-> [o \in Offsets |->
                  [ray |-> 1, distance |-> NearLight, lambert |-> o % 2,
                   phong |-> 1]]],
              "light1")

EmptyScenes == { Scene(<< >>, lights) : lights \in {<< >>, <<DiskLight>>} }

\* One reflective object on ray 0, lit by the DiskLight.
LitScene ==
    Scene(<< SceneObject(TabObject2(NearT, 0).intersect, Mirror,
                         [r \in Rays |-> (r + 1) % NumRays]) >>,
          <<DiskLight>>)

\* The renders checked: every image size and inversion on one worker
\* thread, and the smallest images on every number of threads (on more
\* than one thread with one depth-of-field sample and the lens of
\* aperture 0, where the SoftLight's sampler alone decides the colours).
RenderConfigs ==
    { [program |-> p, threads |-> 1, image |-> Image(w, h, inverted),
       renderer |-> Renderer(scene, Pinhole, 1, 1)] :
        p \in {"rt", "main"}, w \in 1 .. MaxWidth, h \in 1 .. MaxHeight,
        inverted \in BOOLEAN, scene \in EmptyScenes \cup {LitScene} }
    \cup
    { c \in { [program |-> "rt", threads |-> n, image |-> Image(1, 1, TRUE),
               renderer |-> Renderer(scene, camera, d, 1)] :
                n \in 1 .. NumWorkers, scene \in EmptyScenes \cup {LitScene},
                camera \in {Pinhole, WideLens}, d \in 1 .. MaxDofSamples } :
        \/ c.threads = 1
        \/ c.renderer.numDofSamples = 1 /\ c.renderer.camera = Pinhole }
    \cup
    { [program |-> "main", threads |-> n,
       image |-> Image(MaxWidth, MaxHeight, TRUE),
       renderer |-> Renderer(scene, Pinhole, 1, 1)] :
        n \in 1 .. NumWorkers, scene \in EmptyScenes \cup {LitScene} }

RenderInit ==
    /\ fn = NoCall
    /\ args = << >>
    /\ ret = 0
    /\ \E c \in RenderConfigs :
           /\ program = c.program
           /\ renderer = c.renderer
           /\ image = c.image
           /\ workers = [w \in 1 .. c.threads |-> Idle]
    /\ pc = "idle"
    /\ next = 0
    /\ sampled = << >>
    /\ superSampled = << >>
    /\ index = 0
    /\ samplers = AllAt(UniformDistribution)
    /\ traceCounter = 0
    /\ rayCounter = 0
    /\ traceCalls = 0
    /\ lightSamples = 0
    /\ shadeCalls = 0
    /\ writes = [slot \in DOMAIN image.data |-> 0]
    /\ seedWriters = [id \in SamplerIds |-> {}]
    /\ slotWriters = {}
    /\ regions = << >>
    /\ pointCalls = 0
    /\ regionCalls = 0
    /\ deleted = [object \in {"renderer", "image"} |-> 0]
    /\ stale = {}
    /\ printed = 0
    /\ frames = << >>
    /\ libraryCalls = 0

RenderNext ==
    \/ Render
    \/ MainRender
    \/ \E w \in Workers : Claim(w)
    \/ \E w \in Workers : BodyLoad(w)
    \/ \E w \in Workers : BodyStore(w)
    \/ \E w \in Workers : BodyRead(w)
    \/ \E w \in Workers : BodyWrite(w)
    \/ \E w \in Workers : MainBodyWrite(w)
    \/ Join
    \/ MainJoin
    \/ Supersample
    \/ SupersampleFault
    \/ EndSupersample
    \/ Set
    \/ Return
    \/ Fopen
    \/ FopenFault
    \/ Image_write
    \/ main_Image_write
    \/ Fclose
    \/ DeleteRenderer
    \/ DeleteImage
    \/ Report
    \/ ReportFault

SpecRender == RenderInit /\ [][RenderNext]_vars

-----------------------------------------------------------------------------
(* The claims on Renderer::render.                                         *)

\* C2: once render has returned from a scene without objects, whatever
\* its lights, camera, image and numDofSamples, every pixel of the image
\* is black and Light::shade has not been called.
C2_EmptySceneRendersBlack ==
    (pc = "done" /\ renderer.scene.objects = << >>) =>
        /\ \A slot \in DOMAIN image.data : image.data[slot] = 0
        /\ shadeCalls = 0

\* render has returned from a scene of lights and no objects, having
\* supersampled a pixel with renderRegion on the way.
C2_Witness ==
    /\ pc = "done"
    /\ program = "rt"
    /\ renderer.scene.objects = << >>
    /\ renderer.scene.lights # << >>
    /\ image.size > 1
    /\ traceCounter > borderedSize * renderer.numDofSamples
    /\ \A slot \in DOMAIN image.data : writes[slot] > 0

\* The colours of the bodies from index i on, run one after the other in
\* the order of their indices on the samplers mem, after the colours out.
RECURSIVE SequentialFrom(_, _, _)
SequentialFrom(i, mem, out) ==
    IF i >= Bodies THEN out
    ELSE LET r == BodyOn(i, Sequential(mem))
         IN  SequentialFrom(i + 1, r.io.mem, Append(out, r.colour))

SequentialColours == SequentialFrom(0, AllAt(UniformDistribution), << >>)

\* The slot of the image for the pixel (i % width, i / width).
PixelSlot(i) ==
    LET x == i % image.width
        y == i \div image.width
    IN  (IF image.inverted THEN image.height - 1 - y ELSE y) * image.width + x

\* C3: whatever the interleaving of the workers, the parallel_for of
\* Renderer::render leaves what its bodies leave when run one after the
\* other from the same seeds: in sampled[], which the image is made from
\* (renderer.cc), and in the image (main.cc).  The sampler values a pixel
\* receives do not depend on the scheduling.
C3_SamplesIndependentOfSchedule ==
    /\ (program = "rt" /\ pc = "supersample" /\ index = 0) =>
           \A i \in DOMAIN sampled : sampled[i] = SequentialColours[i + 1]
    /\ (program = "main" /\ pc = "done") =>
           \A i \in 0 .. (Bodies - 1) :
               image.data[PixelSlot(i)] = Pixel(SequentialColours[i + 1])

\* C4: in the parallel phase no sampler's seed is written by two workers.
C4_SeedsWrittenByOneWorker ==
    \A id \in DOMAIN seedWriters : Cardinality(seedWriters[id]) <= 1

\* The slot the claim gives the body of index i.
OutputSlot(i) == IF program = "rt" THEN i ELSE PixelSlot(i)

\* C5: the body of index i writes output slot i (renderer.cc) or the image
\* slot of pixel (i % width, i / width) (main.cc), a slot of the buffer,
\* and no slot is written by two bodies or twice.
C5_WorkerWritesOnlyItsSlot ==
    /\ \A p \in slotWriters : p[2] = OutputSlot(p[1])
    /\ \A p, q \in slotWriters : p[2] = q[2] => p[1] = q[1]
    /\ (program = "main" /\ pc = "sample") =>
           /\ \A slot \in DOMAIN writes : writes[slot] <= 1
           /\ \A w \in Workers :
                  workers[w].pc # "idle" =>
                      OutputSlot(workers[w].index) \in DOMAIN image.data
    /\ (program = "rt" /\ pc = "sample") =>
           \A w \in Workers :
               workers[w].pc # "idle" => workers[w].index \in DOMAIN sampled

\* Two workers are at work on two bodies after two others have written
\* their slots of an inverted image.
C5_Witness ==
    /\ pc = "sample"
    /\ program = "main"
    /\ image.inverted
    /\ Cardinality(slotWriters) >= 2
    /\ Len(workers) >= 2
    /\ \A w \in Workers : workers[w].pc # "idle"
    /\ \E v, w \in Workers : workers[v].index # workers[w].index

\* C6: once render has returned, every slot of the image has been written
\* exactly once and the buffer has its width * height slots; and
\* Image::set(index) takes index to the slot
\* (inverted ? height - 1 - y : y) * width + x of x = index % width and
\* y = index / width, one to one onto the slots.
C6_EverySlotWrittenOnce ==
    program = "rt" =>
        /\ pc = "done" =>
               /\ DOMAIN image.data = 0 .. (image.width * image.height - 1)
               /\ \A slot \in DOMAIN image.data : writes[slot] = 1
        /\ \A i \in 0 .. (image.size - 1) : Image_set(image, i) = PixelSlot(i)
        /\ { Image_set(image, i) : i \in 0 .. (image.size - 1) }
               = 0 .. (image.size - 1)
        /\ \A i, j \in 0 .. (image.size - 1) :
               Image_set(image, i) = Image_set(image, j) => i = j

\* render has returned from an inverted image of the largest size.
C6_Witness ==
    /\ pc = "done"
    /\ program = "rt"
    /\ image.inverted
    /\ image.width = MaxWidth
    /\ image.height = MaxHeight
    /\ \A slot \in DOMAIN image.data : writes[slot] = 1

-----------------------------------------------------------------------------
(* CheckerBoard::surface.  A Scalar v of this section is the integer       *)
(* PointScale * v, so the conversion of a Scalar to int truncates.         *)

PointScale      == 2     \* model units per 1.0
MaxPoint        == 9     \* x of a surface point lies in -MaxPoint..MaxPoint
MaxCheckerWidth == 3     \* checkerWidth lies in 1..MaxCheckerWidth

\* int x = <Scalar>: the fraction is discarded (truncation toward zero).
ToInt(v) == IF v >= 0 THEN v \div PointScale ELSE 0 - ((0 - v) \div PointScale)

\* a % b of C++ on ints, b > 0: the result has the sign of a.
Rem(a, b) == IF a >= 0 THEN a % b ELSE 0 - ((0 - a) % b)

CheckerBoard(checkerWidth, gridOffset) ==
    [type |-> "CheckerBoard", checkerWidth |-> checkerWidth, gridOffset |-> gridOffset]

\* static_cast<int>(checkerWidth * 2)
CheckerBoard_half(self) == ToInt(2 * self.checkerWidth)

\* CheckerBoard::surface (objects.h)
CheckerBoard_surface(self, point) ==
    LET x    == ToInt(point.x + self.gridOffset)
        y    == ToInt(point.z + self.gridOffset)
        half == CheckerBoard_half(self)
        mod  == half * 2
    IN  IF Rem(x, mod) < half
        THEN IF Rem(y, mod) < half THEN "material1" ELSE "material2"
        ELSE IF Rem(y, mod) < half THEN "material2" ELSE "material1"

\* CheckerBoard::surface (main.cc): no offset, and y for z.
main_CheckerBoard_surface(self, point) ==
    LET x    == ToInt(point.x)
        y    == ToInt(point.y)
        half == CheckerBoard_half(self)
        mod  == half * 2
    IN  IF Rem(x, mod) < half
        THEN IF Rem(y, mod) < half THEN "black" ELSE "white"
        ELSE IF Rem(y, mod) < half THEN "white" ELSE "black"

\* The values of the static gridOffset: none, and one that makes every
\* coordinate of the model positive.
GridOffsets == {0, PointScale * (MaxPoint + 1)}

\* Boards whose half is at least 1 (x % 0 is undefined), and points of them.
CheckerArgs ==
    { a \in [self  : {CheckerBoard(w, o) : w \in 1 .. MaxCheckerWidth, o \in GridOffsets},
             point : {Vector(x, y, z) : x \in (0 - MaxPoint) .. MaxPoint, y \in 0 .. 1, z \in 0 - 1 .. 0}] :
        CheckerBoard_half(a.self) >= 1 }

CheckerInit ==
    /\ fn = NoCall
    /\ args \in CheckerArgs
    /\ ret = 0
    /\ NoRender

CallSurface ==
    /\ fn = NoCall
    /\ fn' = "CheckerBoard::surface"
    /\ ret' = CheckerBoard_surface(args.self, args.point)
    /\ UNCHANGED <<args, renderVars, regionVars, heapVars, trigVars>>

CallMainSurface ==
    /\ fn = NoCall
    /\ args.self.gridOffset = 0
    /\ fn' = "main::CheckerBoard::surface"
    /\ ret' = main_CheckerBoard_surface(args.self, args.point)
    /\ UNCHANGED <<args, renderVars, regionVars, heapVars, trigVars>>

CheckerNext == CallSurface \/ CallMainSurface

SpecChecker == CheckerInit /\ [][CheckerNext]_vars

-----------------------------------------------------------------------------
(* C12.                                                                    *)

\* The point p + (d, 0, 0).
AlongX(p, d) == Vector(p.x + d, p.y, p.z)

\* C12: surface returns one of the board's two materials; surface(p) and
\* surface(p + (2 * checkerWidth, 0, 0)) are the same material, and
\* surface(p) and surface(p + (checkerWidth, 0, 0)) are different materials.
C12_PeriodTwoCheckerWidths ==
    /\ fn = "CheckerBoard::surface" =>
         /\ ret \in {"material1", "material2"}
         /\ ret = CheckerBoard_surface(args.self, AlongX(args.point, 2 * args.self.checkerWidth))
         /\ ret # CheckerBoard_surface(args.self, AlongX(args.point, args.self.checkerWidth))
    /\ fn = "main::CheckerBoard::surface" =>
         /\ ret \in {"black", "white"}
         /\ ret = main_CheckerBoard_surface(args.self, AlongX(args.point, 2 * args.self.checkerWidth))
         /\ ret # main_CheckerBoard_surface(args.self, AlongX(args.point, args.self.checkerWidth))

\* C12, the part that holds: surface returns one of the two materials.
C12_OneOfTwoMaterials ==
    /\ fn = "CheckerBoard::surface" => ret \in {"material1", "material2"}
    /\ fn = "main::CheckerBoard::surface" => ret \in {"black", "white"}

\* The period 4 * checkerWidth, asked of every point.
C12_PeriodFourCheckerWidths ==
    /\ fn = "CheckerBoard::surface" =>
         ret = CheckerBoard_surface(args.self, AlongX(args.point, 4 * args.self.checkerWidth))
    /\ fn = "main::CheckerBoard::surface" =>
         ret = main_CheckerBoard_surface(args.self, AlongX(args.point, 4 * args.self.checkerWidth))

\* The period 4 * checkerWidth, asked of the points whose coordinates,
\* offset included, are not negative.
C12_PeriodFourNonNegative ==
    /\ fn = "CheckerBoard::surface" /\ args.point.x + args.self.gridOffset >= 0 =>
         /\ ret = CheckerBoard_surface(args.self, AlongX(args.point, 4 * args.self.checkerWidth))
         /\ ret # CheckerBoard_surface(args.self, AlongX(args.point, 2 * args.self.checkerWidth))
    /\ fn = "main::CheckerBoard::surface" /\ args.point.x >= 0 =>
         /\ ret = main_CheckerBoard_surface(args.self, AlongX(args.point, 4 * args.self.checkerWidth))
         /\ ret # main_CheckerBoard_surface(args.self, AlongX(args.point, 2 * args.self.checkerWidth))

-----------------------------------------------------------------------------
(* C13.                                                                    *)

\* The parallel_for of render has been joined.
AfterParallelPhase == pc \in {"supersample", "set", "done", "crashed"}

-----------------------------------------------------------------------------
(* C14.                                                                    *)

\* The write of the image to the file has started.
FileWriteStarted == pc \in {"write", "closed"}

\* C14: the write of the image to the file starts only once render has
\* returned, when every body of the parallel_for has finished and every
\* pixel has been set, and no pixel of the image is set after the write to
\* the file has started.
C14_FileWrittenAfterRender ==
    /\ [](FileWriteStarted =>
            /\ next = Bodies
            /\ \A w \in Workers : workers[w].pc = "idle"
            /\ \A slot \in DOMAIN image.data : writes[slot] >= 1)
    /\ [][FileWriteStarted' => pc \in {"done", "write", "closed"}]_vars
    /\ [][FileWriteStarted => image' = image /\ writes' = writes]_vars

\* The file of an image that two workers rendered is being written.
C14_Witness ==
    /\ pc = "write"
    /\ index > 0
    /\ Cardinality(Workers) = 2
    /\ \A slot \in DOMAIN image.data : writes[slot] >= 1

-----------------------------------------------------------------------------
(* Calls of Renderer::renderPoint on a renderer, a pixel of the film and   *)
(* a state of the lens's aperture sampler.                                 *)

\* The seeds a sampler may hold: seed *= mult keeps a seed odd.
Seeds == { s \in 0 .. (SeedModulus - 1) : s % 2 = 1 }

PointArgs ==
    [renderer : { Renderer(scene, camera, d, 1) :
                    scene \in EmptyScenes \cup {LitScene},
                    camera \in {Pinhole, WideLens}, d \in 1 .. MaxDofSamples },
     pixel : FilmPixels,
     seed : Seeds]

\* The samplers with the aperture sampler at seed.
SamplersAt(seed) == [AllAt(UniformDistribution) EXCEPT !["aperture"] = seed]

PointInit ==
    /\ fn = NoCall
    /\ args \in PointArgs
    /\ ret = 0
    /\ NoRender

CallRenderPoint ==
    /\ fn = NoCall
    /\ fn' = "renderPoint"
    /\ ret' = renderPoint(args.renderer, args.pixel[1] * PixelOne + PixelOne \div 2,
                          args.pixel[2] * PixelOne + PixelOne \div 2,
                          Sequential(SamplersAt(args.seed)))
    /\ UNCHANGED <<args, renderVars, regionVars, heapVars, trigVars>>

\* trace on the ray from the centre of the lens through the pixel.
CallTracePinhole ==
    /\ fn = NoCall
    /\ fn' = "trace"
    /\ ret' = trace(args.renderer, args.renderer.camera.film[args.pixel][0], 0,
                    Sequential(SamplersAt(args.seed)), MaxStack)
    /\ UNCHANGED <<args, renderVars, regionVars, heapVars, trigVars>>

PointNext == CallRenderPoint \/ CallTracePinhole

SpecPoint == PointInit /\ [][PointNext]_vars

-----------------------------------------------------------------------------
(* C15.                                                                    *)

\* The colour of the single un-jittered pinhole ray of the call.
PinholeColour ==
    trace(args.renderer, args.renderer.camera.film[args.pixel][0], 0,
          Sequential(SamplersAt(args.seed)), MaxStack).colour

\* C15: with numDofSamples = 1 or a lens of aperture 0, renderPoint returns
\* the colour of the single un-jittered pinhole ray, whatever the state of
\* the lens's aperture sampler.
C15_NoBlurWithOneSampleOrNoAperture ==
    (/\ fn = "renderPoint"
     /\ \/ args.renderer.numDofSamples = 1
        \/ args.renderer.camera = Pinhole)
        => ret.colour = PinholeColour

\* C15 for numDofSamples = 1 and a lens of aperture 0 together.
C15_OneSampleAndNoAperture ==
    (/\ fn = "renderPoint"
     /\ args.renderer.numDofSamples = 1
     /\ args.renderer.camera = Pinhole)
        => ret.colour = PinholeColour

\* C15 for a lens of aperture 0 and a scene without lights or objects.
C15_NoApertureUnlit ==
    (/\ fn = "renderPoint"
     /\ args.renderer.camera = Pinhole
     /\ args.renderer.scene.objects = << >>)
        => ret.colour = PinholeColour


\* C15 for numDofSamples = 1 alone.
C15_OneSample ==
    (fn = "renderPoint" /\ args.renderer.numDofSamples = 1)
        => ret.colour = PinholeColour

-----------------------------------------------------------------------------
(* Calls of Renderer::supersample (main.cc) on a renderer and a ray, in    *)
(* the builds whose ANTIALIASING_SAMPLE_COUNT is 0 .. MaxExtraSamples.     *)

MaxExtraSamples == 2

\* One matte object on ray 0, lit by the DiskLight.
MatteScene ==
    Scene(<< SceneObject(TabObject2(NearT, 0).intersect, Matte,
                         [r \in Rays |-> (r + 1) % NumRays]) >>,
          <<DiskLight>>)

SupersampleArgs ==
    [self : { Renderer(scene, Pinhole, 1, 1) :
                scene \in EmptyScenes \cup {LitScene, MatteScene} },
     ray : Rays,
     count : 0 .. MaxExtraSamples,
     seed : Seeds,
     lightSeed : Seeds]

\* The samplers of main.cc: sampler at seed and softSampler at lightSeed.
MainSamplers(seed, lightSeed) ==
    [AllAt(UniformDistribution) EXCEPT !["sampler"] = seed, !["softSampler"] = lightSeed]

SupersampleInit ==
    /\ fn = NoCall
    /\ args \in SupersampleArgs
    /\ ret = 0
    /\ NoRender

CallSupersample ==
    /\ fn = NoCall
    /\ fn' = "supersample"
    /\ ret' = main_supersample_Built(args.self, args.ray,
                                     Sequential(MainSamplers(args.seed, args.lightSeed)),
                                     args.count)
    /\ UNCHANGED <<args, renderVars, regionVars, heapVars, trigVars>>

SupersampleNext == CallSupersample

SpecSupersample == SupersampleInit /\ [][SupersampleNext]_vars

-----------------------------------------------------------------------------
(* C16.                                                                    *)

\* The calls of trace that supersample is to make, from extra sample i on:
\* the colours they return, in order, and the trace invocations they
\* make, themselves included; the first, on the origin ray, is t.
RECURSIVE TraceCalls(_, _, _, _, _, _)
TraceCalls(self, ray, i, t, count, colours) ==
    IF i >= count THEN [colours |-> Append(colours, t.colour), traces |-> t.traces]
    ELSE LET x == Sample(t.io, "sampler")
             y == Sample(x.io, "sampler")
             u == main_trace(self, (ray + OffsetOf(x.value, y.value, 0)) % NumRays,
                             0, 0, y.io, MaxStack)
             rest == TraceCalls(self, ray, i + 1, u, count, Append(colours, t.colour))
         IN  [colours |-> rest.colours, traces |-> t.traces + rest.traces]

ExpectedCalls ==
    TraceCalls(args.self, args.ray, 0,
               main_trace(args.self, args.ray, 0, 0,
                          Sequential(MainSamplers(args.seed, args.lightSeed)), MaxStack),
               args.count, << >>)

RECURSIVE Sum(_)
Sum(colours) == IF colours = << >> THEN 0 ELSE Head(colours) + Sum(Tail(colours))

\* Does no trace of the scene call trace again?
NoReflection(self) == \A i \in DOMAIN self.scene.objects : self.scene.objects[i].material.reflectivity = 0

\* C16: supersample built with ANTIALIASING_SAMPLE_COUNT = N calls trace
\* N + 1 times and returns the sum of the colours traced divided by N + 1;
\* with N = 0 it returns what trace(ray) returns.
C16_SupersampleAveragesNPlusOneTraces ==
    fn = "supersample" =>
        /\ Len(ExpectedCalls.colours) = args.count + 1
        /\ ret.traces = ExpectedCalls.traces
        /\ NoReflection(args.self) => ret.traces = args.count + 1
        /\ ret.colour = ColourDiv(Sum(ExpectedCalls.colours), args.count + 1)
        /\ args.count = 0 =>
             ret = main_trace(args.self, args.ray, 0, 0,
                              Sequential(MainSamplers(args.seed, args.lightSeed)), MaxStack)

\* supersample has averaged the colours of more than one trace, not all
\* of the same colour.
C16_Witness ==
    /\ fn = "supersample"
    /\ args.count > 0
    /\ ret.traces >= args.count + 1
    /\ \E i, j \in DOMAIN ExpectedCalls.colours :
           ExpectedCalls.colours[i] # ExpectedCalls.colours[j]

-----------------------------------------------------------------------------
(* The conversion of a Colour to a Pixel.  A channel c of this section is  *)
(* the integer ChannelOne * c, or INFINITY, NegInfinity or NaN.            *)

ChannelOne == 8      \* model units per 1.0
MaxChannel == 40     \* finite channels lie in -MaxChannel..MaxChannel

\* Clamp a Scalar value to within the range [0,1].
clamp(x) ==
    IF FGt(x, ChannelOne) THEN ChannelOne
    ELSE IF FLt(x, 0) THEN 0
    ELSE x

\* scale with x * PixelColourMax rounded up to a whole number.
scale_RoundUp(x) ==
    IF IsFinite(x) /\ x >= 0 /\ x <= ChannelOne
    THEN {(x * PixelColourMax + ChannelOne - 1) \div ChannelOne}
    ELSE 0 .. PixelColourMax

\* scale: the values static_cast<PixelColourType>(x * PixelColourMax) may
\* have.  The conversion discards the fraction; of a product that is NaN
\* or that the type cannot hold it is undefined, and gives any value of
\* the type.
scale(x) ==
    IF IsFinite(x) /\ x >= 0 /\ x <= ChannelOne
    THEN {(x * PixelColourMax) \div ChannelOne}
    ELSE 0 .. PixelColourMax

\* Colour::operator Pixel on one channel.
Colour_Pixel(c) == scale(clamp(c))

Channels == ((0 - MaxChannel) .. MaxChannel) \cup {INFINITY, NegInfinity, NaN}

PixelInit ==
    /\ fn = NoCall
    /\ args \in [c : Channels]
    /\ ret = 0
    /\ NoRender

CallPixel ==
    /\ fn = NoCall
    /\ fn' = "Pixel"
    /\ ret' \in Colour_Pixel(args.c)
    /\ UNCHANGED <<args, renderVars, regionVars, heapVars, trigVars>>

PixelNext == CallPixel

SpecPixel == PixelInit /\ [][PixelNext]_vars

-----------------------------------------------------------------------------
(* C17.                                                                    *)

\* floor(255 * min(1, max(0, c))) of a channel that is a number.
FloorScaled(c) ==
    IF c = INFINITY \/ (c # NegInfinity /\ c >= ChannelOne) THEN PixelColourMax
    ELSE IF c = NegInfinity \/ c <= 0 THEN 0
    ELSE CHOOSE k \in 0 .. PixelColourMax :
             /\ k * ChannelOne <= PixelColourMax * c
             /\ (k + 1) * ChannelOne > PixelColourMax * c

\* C17: the pixel of a channel c is floor(255 * min(1, max(0, c))): it
\* lies in 0..255, is 255 for c >= 1 and 0 for c <= 0, and channels in
\* order have pixels in order.
C17_PixelIsFloorOfClampedChannel ==
    fn = "Pixel" =>
        /\ ret \in 0 .. PixelColourMax
        /\ args.c # NaN =>
             /\ ret = FloorScaled(args.c)
             /\ FGt(args.c, ChannelOne) \/ args.c = ChannelOne => ret = PixelColourMax
             /\ FLt(args.c, 0) \/ args.c = 0 => ret = 0
             /\ \A d \in Channels \ {NaN} :
                    FLt(d, args.c) => \A q \in Colour_Pixel(d) : q <= ret

\* A channel strictly between two pixel values has been converted.
C17_Witness ==
    /\ fn = "Pixel"
    /\ args.c > 0
    /\ args.c < ChannelOne
    /\ ret * ChannelOne < PixelColourMax * args.c
    /\ ret > 0

-----------------------------------------------------------------------------
(* Matrices.  Entries are integers, which a double holds exactly.          *)

MaxEntry == 1      \* arguments of the constructors lie in 0..MaxEntry
MaxScalar == 2     \* the Scalar of Matrix * Scalar lies in 0..MaxScalar

\* Contructor: V = (x,y,z,w)
Vector4(x, y, z, w) == [x |-> x, y |-> y, z |-> z, w |-> w]

\* Vector * Scalar: A' = aA.  The result is built with three arguments,
\* so its w is 0.
Vector_mulScalar(v, a) == Vector(a * v.x, a * v.y, a * v.z)

\* A 4x4 matrix: its rows and its columns.
Matrix(r1, r2, r3, r4) ==
    [r |-> <<r1, r2, r3, r4>>,
     c |-> <<Vector4(r1.x, r2.x, r3.x, r4.x), Vector4(r1.y, r2.y, r3.y, r4.y),
             Vector4(r1.z, r2.z, r3.z, r4.z), Vector4(r1.w, r2.w, r3.w, r4.w)>>]

\* The row of a * b whose row of a is r.
Matrix_mulRow(r, b) == Vector4(Dot(r, b.c[1]), Dot(r, b.c[2]), Dot(r, b.c[3]), Dot(r, b.c[4]))

\* Matrix multiplication.
Matrix_mul(a, b) ==
    Matrix(Matrix_mulRow(a.r[1], b), Matrix_mulRow(a.r[2], b),
           Matrix_mulRow(a.r[3], b), Matrix_mulRow(a.r[4], b))

\* Matrix by vector multiplication: the "w" component is padded with 1.
Matrix_mulVector(a, b) ==
    LET v == Vector4(b.x, b.y, b.z, 1)
    IN  Vector4(Dot(a.r[1], v), Dot(a.r[2], v), Dot(a.r[3], v), Dot(a.r[4], v))

\* Scalar multiplication.
Matrix_mulScalar(m, a) ==
    Matrix(Vector_mulScalar(m.r[1], a), Vector_mulScalar(m.r[2], a),
           Vector_mulScalar(m.r[3], a), Vector_mulScalar(m.r[4], a))

\* A translation matrix.
Translation(x, y, z) ==
    Matrix(Vector4(1, 0, 0, x), Vector4(0, 1, 0, y), Vector4(0, 0, 1, z), Vector4(0, 0, 0, 1))

\* A scale matrix.
Scale(x, y, z) ==
    Matrix(Vector4(x, 0, 0, 0), Vector4(0, y, 0, 0), Vector4(0, 0, z, 0), Vector4(0, 0, 0, 1))

Entries == 0 .. MaxEntry

\* The matrices of the calls: translations, scales, and their multiples.
Constructed ==
    { Translation(x, y, z) : x, y, z \in Entries } \cup { Scale(x, y, z) : x, y, z \in Entries }

Matrices == Constructed \cup { Matrix_mulScalar(m, a) : m \in Constructed, a \in 0 .. MaxScalar }

MatrixInit ==
    /\ fn = NoCall
    /\ args \in [A : Matrices, B : Matrices, v : { Vector(x, y, z) : x, y, z \in Entries }]
    /\ ret = 0
    /\ NoRender

\* (A * B) * v
CallProductFirst ==
    /\ fn = NoCall
    /\ fn' = "(A*B)*v"
    /\ ret' = Matrix_mulVector(Matrix_mul(args.A, args.B), args.v)
    /\ UNCHANGED <<args, renderVars, regionVars, heapVars, trigVars>>

\* A * (B * v)
CallVectorFirst ==
    /\ fn = NoCall
    /\ fn' = "A*(B*v)"
    /\ ret' = Matrix_mulVector(args.A, Matrix_mulVector(args.B, args.v))
    /\ UNCHANGED <<args, renderVars, regionVars, heapVars, trigVars>>

MatrixNext == CallProductFirst \/ CallVectorFirst

SpecMatrix == MatrixInit /\ [][MatrixNext]_vars

-----------------------------------------------------------------------------
(* C18.                                                                    *)

XYZ(v) == <<v.x, v.y, v.z>>

\* C18: the x, y and z of (A * B) * v are those of A * (B * v).
C18_ProductCompatibleWithVector ==
    fn = "(A*B)*v" =>
        XYZ(ret) = XYZ(Matrix_mulVector(args.A, Matrix_mulVector(args.B, args.v)))

\* C18 for the B whose last row is (0, 0, 0, 1).
C18_AffineB ==
    (fn = "(A*B)*v" /\ args.B.r[4] = Vector4(0, 0, 0, 1)) =>
        XYZ(ret) = XYZ(Matrix_mulVector(args.A, Matrix_mulVector(args.B, args.v)))

-----------------------------------------------------------------------------
(* C19 and C20.                                                            *)

\* render's loop over the pixels is at a pixel.
AtPixel == pc = "supersample" /\ index < image.size

\* C19: every index render reads sampled at, the pixel's own and those of
\* the neighbours it looks at, is an index of sampled.
C19_SampledReadsInBounds ==
    AtPixel =>
        /\ image_index(PixelX + 1, PixelY + 1, borderedWidth) \in DOMAIN sampled
        /\ \A beyond \in [Beyond -> Garbage] :
               \A i \in LookedAt(sampled, CentrePixel, PixelNeighbours, beyond) :
                   PixelNeighbours[i] \in DOMAIN sampled

\* The indices of the samples around the pixel's own, which is that of
\* the bordered (x + 1, y + 1).
Adjacent ==
    { image_index(PixelX + 1 + dx, PixelY + 1 + dy, borderedWidth) :
        dx, dy \in {0 - 1, 0, 1} } \ {image_index(PixelX + 1, PixelY + 1, borderedWidth)}

\* C20: the eight samples compared with a pixel's own are those around it
\* in the bordered array, and render supersamples the pixel (renderRegion
\* traces rays) exactly when one of them differs from it by more than
\* maxPixelDiff.
C20_ComparesAdjacentSamples ==
    /\ [](AtPixel => { PixelNeighbours[i] : i \in 1 .. 8 } = Adjacent)
    /\ [][(AtPixel /\ pc' = "supersample") =>
             (traceCalls' # traceCalls
                <=> \E n \in Adjacent : Colour_diff(CentrePixel, sampled[n]) > maxPixelDiff)]_vars

\* C20, the supersampling alone.
C20_SupersampledWhenAdjacentDiffers ==
    [][(AtPixel /\ pc' = "supersample") =>
          (traceCalls' # traceCalls
             <=> \E n \in Adjacent : Colour_diff(CentrePixel, sampled[n]) > maxPixelDiff)]_vars


-----------------------------------------------------------------------------
(* Renderer::renderRegion step by step: the regions it is called on and    *)
(* the points it samples.  The colours of the samples are left out: a      *)
(* comparison of two of them can come out either way.                      *)

\* A call renderRegion(regionX, regionY, regionSize, transform, depth), at
\* its first loop; i is the subregion its second loop has reached.
RegionCall(regionX, regionY, regionSize, depth) ==
    [regionX |-> regionX, regionY |-> regionY, regionSize |-> regionSize,
     depth |-> depth, i |-> 0, at |-> "sample"]

SubregionSize(r) == r.regionSize \div 2
SubregionOffset(r) == SubregionSize(r) \div 2

\* The origin of subregion n of the call r.
Subregion_x(r, n) == r.regionX + image_x(n, 2) * SubregionSize(r)
Subregion_y(r, n) == r.regionY + image_y(n, 2) * SubregionSize(r)

\* The four points the first loop of r passes to renderPoint.
RegionSamples(r) ==
    [n \in 0 .. 3 |-> <<Subregion_x(r, n) + SubregionOffset(r),
                        Subregion_y(r, n) + SubregionOffset(r)>>]

\* The recursive call r makes for subregion n.
SubregionCall(r, n) ==
    RegionCall(Subregion_x(r, n), Subregion_y(r, n), r.regionSize \div 4,
               r.depth + 1)

\* renderRegion with the recursion allowed one level deeper.
AtMaxDepth_Late(depth) == depth > maxSubpixelDepth

\* if (depth >= maxSubpixelDepth) return mean;
AtMaxDepth(depth) == depth >= maxSubpixelDepth

\* The innermost call in progress.
Innermost == regions[Len(regions)]

\* The calls in progress once the innermost one has returned: its caller
\* goes on to the next subregion.
Returned ==
    LET callers == SubSeq(regions, 1, Len(regions) - 1)
    IN  IF callers = << >> THEN << >>
        ELSE [callers EXCEPT ![Len(callers)].i = @ + 1]

\* The second loop of the innermost call is at a subregion.
AtSubregion ==
    /\ regions # << >>
    /\ Innermost.at \in {"mean", "loop"}
    /\ Innermost.at = "mean" => ~AtMaxDepth(Innermost.depth)
    /\ Innermost.i < 4

\* render's loop at a pixel none of whose neighbours differs from it.
RenderKeep ==
    /\ pc = "supersample"
    /\ index < image.size
    /\ regions = << >>
    /\ regionCalls = 0
    /\ index' = index + 1
    /\ UNCHANGED <<pureVars, regionVars, heapVars, trigVars, program, renderer, image, pc, next,
                   workers, sampled, superSampled, samplers, traceCounter,
                   rayCounter, traceCalls, lightSamples, shadeCalls, writes,
                   seedWriters, slotWriters>>

\* render's loop at a pixel with a neighbour that differs from it:
\* pixel = renderRegion(x, y, 1, transform)
RenderRegion ==
    /\ pc = "supersample"
    /\ index < image.size
    /\ regions = << >>
    /\ regionCalls = 0
    /\ regions' = <<RegionCall(PixelX * PixelOne, PixelY * PixelOne,
                               PixelOne, 0)>>
    /\ regionCalls' = regionCalls + 1
    /\ pointCalls' = 0
    /\ UNCHANGED <<pureVars, heapVars, trigVars, program, renderer, image, pc, next, workers,
                   sampled, superSampled, index, samplers, traceCounter,
                   rayCounter, traceCalls, lightSamples, shadeCalls, writes,
                   seedWriters, slotWriters>>

\* The break after renderRegion has returned to render.
RenderBreak ==
    /\ pc = "supersample"
    /\ regions = << >>
    /\ regionCalls > 0
    /\ index' = index + 1
    /\ regionCalls' = 0
    /\ pointCalls' = 0
    /\ UNCHANGED <<pureVars, heapVars, trigVars, program, renderer, image, pc, next, workers,
                   sampled, superSampled, samplers, traceCounter, rayCounter,
                   traceCalls, lightSamples, shadeCalls, writes, seedWriters,
                   slotWriters, regions>>

\* The first loop of renderRegion: a sample at the centre of each
\* subregion.
RegionSample ==
    /\ regions # << >>
    /\ Innermost.at = "sample"
    /\ pointCalls' = pointCalls + 4
    /\ regions' = [regions EXCEPT ![Len(regions)].at = "mean"]
    /\ UNCHANGED <<pureVars, heapVars, trigVars, program, renderer, image, pc, next, workers,
                   sampled, superSampled, index, samplers, traceCounter,
                   rayCounter, traceCalls, lightSamples, shadeCalls, writes,
                   seedWriters, slotWriters, regionCalls>>

\* if (depth >= maxSubpixelDepth) return mean;
RegionReturnMean ==
    /\ regions # << >>
    /\ Innermost.at = "mean"
    /\ AtMaxDepth(Innermost.depth)
    /\ regions' = Returned
    /\ UNCHANGED <<pureVars, heapVars, trigVars, program, renderer, image, pc, next, workers,
                   sampled, superSampled, index, samplers, traceCounter,
                   rayCounter, traceCalls, lightSamples, shadeCalls, writes,
                   seedWriters, slotWriters, pointCalls, regionCalls>>

\* The second loop at a sample that differs from the mean: the recursive
\* call.
RegionRecurse ==
    /\ AtSubregion
    /\ regions' = Append([regions EXCEPT ![Len(regions)].at = "loop"],
                         SubregionCall(Innermost, Innermost.i))
    /\ UNCHANGED <<pureVars, heapVars, trigVars, program, renderer, image, pc, next, workers,
                   sampled, superSampled, index, samplers, traceCounter,
                   rayCounter, traceCalls, lightSamples, shadeCalls, writes,
                   seedWriters, slotWriters, pointCalls, regionCalls>>

\* The second loop at a sample that does not differ from the mean.
RegionKeep ==
    /\ AtSubregion
    /\ regions' = [regions EXCEPT ![Len(regions)] =
                       [Innermost EXCEPT !.at = "loop", !.i = @ + 1]]
    /\ UNCHANGED <<pureVars, heapVars, trigVars, program, renderer, image, pc, next, workers,
                   sampled, superSampled, index, samplers, traceCounter,
                   rayCounter, traceCalls, lightSamples, shadeCalls, writes,
                   seedWriters, slotWriters, pointCalls, regionCalls>>

\* return output;
RegionReturnOutput ==
    /\ regions # << >>
    /\ Innermost.at = "loop"
    /\ Innermost.i = 4
    /\ regions' = Returned
    /\ UNCHANGED <<pureVars, heapVars, trigVars, program, renderer, image, pc, next, workers,
                   sampled, superSampled, index, samplers, traceCounter,
                   rayCounter, traceCalls, lightSamples, shadeCalls, writes,
                   seedWriters, slotWriters, pointCalls, regionCalls>>

\* render at its loop over the pixels of an image.
RegionInit ==
    /\ fn = NoCall
    /\ args = << >>
    /\ ret = 0
    /\ program = "rt"
    /\ renderer = << >>
    /\ \E w \in 1 .. MaxWidth, h \in 1 .. MaxHeight : image = Image(w, h, FALSE)
    /\ pc = "supersample"
    /\ next = 0
    /\ workers = << >>
    /\ sampled = << >>
    /\ superSampled = << >>
    /\ index = 0
    /\ samplers = << >>
    /\ traceCounter = 0
    /\ rayCounter = 0
    /\ traceCalls = 0
    /\ lightSamples = 0
    /\ shadeCalls = 0
    /\ writes = << >>
    /\ seedWriters = << >>
    /\ slotWriters = {}
    /\ regions = << >>
    /\ pointCalls = 0
    /\ regionCalls = 0
    /\ deleted = [object \in {"renderer", "image"} |-> 0]
    /\ stale = {}
    /\ printed = 0
    /\ frames = << >>
    /\ libraryCalls = 0

RegionNext ==
    \/ RenderKeep
    \/ RenderRegion
    \/ RenderBreak
    \/ RegionSample
    \/ RegionReturnMean
    \/ RegionRecurse
    \/ RegionKeep
    \/ RegionReturnOutput

SpecRegion == RegionInit /\ [][RegionNext]_vars


-----------------------------------------------------------------------------
(* The claims on the points render and renderRegion sample.                *)

\* The centre of the square with origin (x, y) and the given side.
Centre(x, y, side) == <<x + side \div 2, y + side \div 2>>

\* The image point at which the sample render compares pixel (x, y) with
\* its neighbours, and keeps when it does not supersample, was taken.
BasePoint == SamplePoint(image_index(PixelX + 1, PixelY + 1, borderedWidth))

\* C21: the base sample of the image pixel (x, y) is taken at the image
\* point (x + .5, y + .5), the centre of the unit square that
\* renderRegion(x, y, 1) subdivides when the pixel is supersampled.
C21_BaseSampleAtPixelCentre ==
    regions # << >> =>
        /\ BasePoint = Centre(PixelX * PixelOne, PixelY * PixelOne, PixelOne)
        /\ BasePoint = Centre(regions[1].regionX, regions[1].regionY,
                              regions[1].regionSize)

\* The base sample is taken one pixel further right and down: at
\* (x + 1.5, y + 1.5).
C21_BaseSampleOnePixelOff ==
    (pc = "supersample" /\ index < image.size) =>
        BasePoint = Centre((PixelX + 1) * PixelOne, (PixelY + 1) * PixelOne,
                           PixelOne)


\* Quadrant n of the square with origin (x, y) and the given side: its
\* origin.
Quadrant(x, y, side, n) ==
    <<x + (n % 2) * (side \div 2), y + (n \div 2) * (side \div 2)>>

\* The points of the first loop of r are the centres of its quadrants.
SamplesAtQuadrantCentres(r) ==
    \A n \in 0 .. 3 :
        LET q == Quadrant(r.regionX, r.regionY, r.regionSize, n)
        IN  RegionSamples(r)[n] = Centre(q[1], q[2], r.regionSize \div 2)

\* The call r is on the quadrant of its caller that the caller's second
\* loop is at, as a square of the given side.
OnQuadrantOf(r, caller, side) ==
    /\ <<r.regionX, r.regionY>> =
           Quadrant(caller.regionX, caller.regionY, caller.regionSize, caller.i)
    /\ r.regionSize = side
    /\ r.depth = caller.depth + 1

\* C22: at every level of renderRegion the four sample points are the
\* centres of the four quadrants of the region, and the recursive call for
\* sub-cell i is on exactly that quadrant: its origin and half the side of
\* the region.
C22_RecursesOnQuadrant ==
    \A k \in 1 .. Len(regions) :
        /\ SamplesAtQuadrantCentres(regions[k])
        /\ k > 1 => OnQuadrantOf(regions[k], regions[k - 1],
                                 regions[k - 1].regionSize \div 2)

\* The samples are at the centres of the quadrants at every level.
C22_SamplesAtQuadrantCentres ==
    \A k \in 1 .. Len(regions) : SamplesAtQuadrantCentres(regions[k])

\* The recursive call has the origin of the quadrant and a quarter of the
\* side of the region.
C22_RecursesOnQuarterSide ==
    \A k \in 2 .. Len(regions) :
        OnQuadrantOf(regions[k], regions[k - 1],
                     regions[k - 1].regionSize \div 4)


\* render and renderRegion as one sequential thread that takes its next
\* step whenever it has one.
SpecRegionFair == SpecRegion /\ WF_vars(RegionNext)

\* 4 + 4^2 + ... + 4^k
RECURSIVE SumOfPowersOfFour(_)
SumOfPowersOfFour(k) == IF k = 0 THEN 0 ELSE 4 ^ k + SumOfPowersOfFour(k - 1)

\* C23: renderRegion terminates: every call render makes returns, the
\* depth argument of a call never exceeds maxSubpixelDepth, one
\* supersampled pixel takes at most 4 + 4^2 + ... + 4^(maxSubpixelDepth+1)
\* calls of renderPoint, and render calls renderRegion at most once for a
\* pixel.
C23_RenderRegionTerminates ==
    /\ [](/\ \A k \in 1 .. Len(regions) : regions[k].depth <= maxSubpixelDepth
          /\ Len(regions) <= maxSubpixelDepth + 1
          /\ pointCalls <= SumOfPowersOfFour(maxSubpixelDepth + 1)
          /\ regionCalls <= 1)
    /\ (regions # << >>) ~> (regions = << >>)

\* A pixel all of whose regions were refined to the last level: the bound
\* on the calls of renderPoint is met.
C23_Witness ==
    /\ regions = << >>
    /\ regionCalls = 1
    /\ pointCalls = SumOfPowersOfFour(maxSubpixelDepth + 1)


-----------------------------------------------------------------------------
(* C24.                                                                    *)

\* The ray hits no object of the call's scene.
Misses(ray) ==
    \A i \in 1 .. Len(args.self.scene.objects) :
        intersect(args.self.scene.objects[i], ray) = 0

\* The object the call's ray hits first.
HitObject ==
    IF fn = "Renderer::trace"
    THEN args.self.scene.objects[
             closestIntersect(args.ray, args.self.scene.objects).closest]
    ELSE args.self.scene.objects[
             main_closestIntersect(args.ray, args.self.scene.objects).index + 1]

\* material.colour * ambient plus the contributions of the lights at the
\* point the call's ray hits.
AmbientAndLights ==
    LET material == surface(HitObject, args.ray)
        start == Traced(material.colour * material.ambient,
                        Sequential(AllAt(UniformDistribution)), 1, 0, 0, FALSE)
    IN  IF fn = "Renderer::trace"
        THEN trace_lights(args.self.scene.lights, args.ray, material,
                          args.self.scene.objects, 1, start).colour
        ELSE main_trace_lights(args.self.scene.lights, args.ray, material,
                               args.self.scene.objects, 1, start).colour

\* The call's ray hits a reflective object and trace follows the
\* reflection ray, which hits nothing.
ReflectionLeavesScene ==
    /\ fn \in {"Renderer::trace", "main::Renderer::trace"}
    /\ ~Misses(args.ray)
    /\ surface(HitObject, args.ray).reflectivity > 0
    /\ fn = "Renderer::trace" => args.self.maxRayDepth > 0
    /\ fn = "main::Renderer::trace" => MAX_DEPTH > 0
    /\ Misses(HitObject.reflection[args.ray])

\* C24: in both trace variants a ray that hits no object yields black, and
\* a reflection ray that leaves the scene adds nothing: the trace of its
\* parent returns material.colour * ambient plus the contributions of the
\* lights.
C24_ReflectionMissAddsNothing ==
    /\ (fn \in {"Renderer::trace", "main::Renderer::trace"}
            /\ Misses(args.ray)) => ret.colour = 0
    /\ ReflectionLeavesScene => ret.colour = AmbientAndLights

\* C24 for Renderer::trace of renderer.cc alone.
C24_RtReflectionMissAddsNothing ==
    fn = "Renderer::trace" => C24_ReflectionMissAddsNothing

\* main.cc: the reflection ray that leaves the scene returns the colour of
\* its parent, which comes back scaled by the reflectivity.
C24_MainReflectionMissAddsParent ==
    (fn = "main::Renderer::trace" /\ ReflectionLeavesScene) =>
        ret.colour = AmbientAndLights
            + ColourMul(AmbientAndLights, surface(HitObject, args.ray).reflectivity)


-----------------------------------------------------------------------------
(* C25.                                                                    *)

\* The samples of the call's SoftLight that no object occludes.
ClearSamples ==
    {i \in 0 .. (args.light.samples - 1) : ~Occluded(SampleGeom(i))}

\* The shadow rays of the call that were found unblocked are those with no
\* object between the surface point and the light.
BlockedOnlyBeforeLight ==
    IF fn = "main::PointLight::shade"
    THEN ret.rays = (IF Occluded(args.light.toLight[args.point]) THEN 0 ELSE 1)
    ELSE ret.rays = Cardinality(ClearSamples)

\* C25: in both shadow tests a shadow ray is blocked only by an object
\* between the surface point and the light: an object whose intersection
\* with the shadow ray is at the distance of the light or beyond does not
\* occlude the light.
C25_BlockedOnlyBeforeLight ==
    fn \in {"SoftLight::shade", "main::SoftLight::shade",
            "main::PointLight::shade"} => BlockedOnlyBeforeLight

\* C25 for intersects of lights.cc alone.
C25_LightsBlockedOnlyBeforeLight ==
    fn = "SoftLight::shade" => BlockedOnlyBeforeLight

\* main.cc: a shadow ray is blocked by every object it intersects, at
\* whatever distance.
C25_MainBlockedAtAnyDistance ==
    fn = "main::PointLight::shade" =>
        ret.rays = (IF \E k \in 1 .. Len(args.objects) :
                           intersect(args.objects[k],
                                     args.light.toLight[args.point].ray) # 0
                    THEN 0 ELSE 1)


-----------------------------------------------------------------------------
(* C26.                                                                    *)

\* Where rt::render uses the Renderer or the Image.
InUse ==
    pc \in {"idle", "sample", "supersample", "set", "done", "write", "closed"}

\* C26: rt::render accesses the Renderer and the Image only before it
\* deletes them, and deletes neither twice.
C26_NoAccessAfterDelete ==
    program = "rt" =>
        /\ stale = {}
        /\ \A object \in DOMAIN deleted : deleted[object] <= 1
        /\ InUse => \A object \in DOMAIN deleted : deleted[object] = 0

\* Only the report reads of a deleted object, the Image; render, the write
\* of the file and the deletes themselves are in order.
C26_OnlyReportAfterDelete ==
    program = "rt" =>
        /\ stale \subseteq {"image"}
        /\ stale # {} => pc \in {"reported", "crashed"}
        /\ \A object \in DOMAIN deleted : deleted[object] <= 1
        /\ InUse => \A object \in DOMAIN deleted : deleted[object] = 0


-----------------------------------------------------------------------------
(* C27.                                                                    *)

\* The points of the model's boards.
CheckerPoints == { a.point : a \in CheckerArgs }

\* The two coordinates of a point that the call's surface looks at.
BoardCoords(p) ==
    IF fn = "CheckerBoard::surface"
    THEN <<p.x + args.self.gridOffset, p.z + args.self.gridOffset>>
    ELSE <<p.x, p.y>>

\* The tile of a point: its coordinates floored to multiples of the side
\* of a tile, CheckerBoard_half.
TileOf(p) ==
    LET side == PointScale * CheckerBoard_half(args.self)
    IN  <<BoardCoords(p)[1] \div side, BoardCoords(p)[2] \div side>>

\* Two tiles with a common edge.
EdgeAdjacent(s, t) ==
    \/ s[1] = t[1] /\ (s[2] - t[2]) \in {0 - 1, 1}
    \/ s[2] = t[2] /\ (s[1] - t[1]) \in {0 - 1, 1}

\* The material the called surface gives at q.
SurfaceAt(q) ==
    IF fn = "CheckerBoard::surface" THEN CheckerBoard_surface(args.self, q)
    ELSE main_CheckerBoard_surface(args.self, q)

\* The material of the call's point is that of the points of Among in its
\* tile and differs from that of the points of Among in the tiles next
\* to it.
CheckerAmong(Among) ==
    \A q \in Among :
        /\ TileOf(q) = TileOf(args.point) => SurfaceAt(q) = ret
        /\ EdgeAdjacent(TileOf(q), TileOf(args.point)) => SurfaceAt(q) # ret

\* C27: CheckerBoard::surface is a checker pattern over the whole plane,
\* negative coordinates included: points of one tile have the same
\* material, points of tiles with a common edge have different ones.
C27_CheckerOverWholePlane ==
    fn \in {"CheckerBoard::surface", "main::CheckerBoard::surface"} =>
        CheckerAmong(CheckerPoints)

\* The points both of whose coordinates on the board are not negative.
NonNegativePoints ==
    { q \in CheckerPoints : BoardCoords(q)[1] >= 0 /\ BoardCoords(q)[2] >= 0 }

\* The pattern is a checker pattern where no coordinate is negative.
C27_CheckerWhereNonNegative ==
    (fn \in {"CheckerBoard::surface", "main::CheckerBoard::surface"}
        /\ args.point \in NonNegativePoints) => CheckerAmong(NonNegativePoints)


-----------------------------------------------------------------------------
(* Calls of Vector::operator| on two vectors.                              *)

MaxComponent == 1    \* x, y and z of a vector lie in -MaxComponent..MaxComponent

\* Cross product: A' = A x B
Vector_cross(a, b) ==
    Vector(a.y * b.z - a.z * b.y,
           a.z * b.x - a.x * b.z,
           a.x * b.y - a.y * b.z)

Components == (0 - MaxComponent) .. MaxComponent

Vectors == { Vector4(x, y, z, w) : x, y, z \in Components, w \in 0 .. 1 }

CrossInit ==
    /\ fn = NoCall
    /\ args \in [a : Vectors, b : Vectors]
    /\ ret = 0
    /\ NoRender

\* a | b
CallCross ==
    /\ fn = NoCall
    /\ fn' = "Vector::operator|"
    /\ ret' = Vector_cross(args.a, args.b)
    /\ UNCHANGED <<args, renderVars, regionVars, heapVars, trigVars>>

CrossNext == CallCross

SpecCross == CrossInit /\ [][CrossNext]_vars

\* The dot product of the x, y and z of two vectors.
Dot3(a, b) == a.x * b.x + a.y * b.y + a.z * b.z

\* The vector with the x, y and z of v and no w.
WithoutW(v) == Vector(v.x, v.y, v.z)

\* C28: A | B is the cross product (Ay*Bz - Az*By, Az*Bx - Ax*Bz,
\* Ax*By - Ay*Bx): it is orthogonal to A and to B, A | B = -(B | A), and
\* the w of the operands plays no part.
C28_CrossProduct ==
    fn = "Vector::operator|" =>
        LET a == args.a
            b == args.b
        IN  /\ XYZ(ret) = <<a.y * b.z - a.z * b.y,
                            a.z * b.x - a.x * b.z,
                            a.x * b.y - a.y * b.x>>
            /\ Dot3(ret, a) = 0
            /\ Dot3(ret, b) = 0
            /\ XYZ(ret) = XYZ(Vector_mulScalar(Vector_cross(b, a), 0 - 1))
            /\ ret = Vector_cross(WithoutW(a), WithoutW(b))

\* The x and y of A | B are those of the cross product, and the w of the
\* operands plays no part.
C28_CrossProductXY ==
    fn = "Vector::operator|" =>
        /\ ret.x = args.a.y * args.b.z - args.a.z * args.b.y
        /\ ret.y = args.a.z * args.b.x - args.a.x * args.b.z
        /\ ret = Vector_cross(WithoutW(args.a), WithoutW(args.b))


-----------------------------------------------------------------------------
(* C29.                                                                    *)

\* The candidate roots of the call: where its ray meets the surface.
CandidateRoots ==
    IF fn = "Sphere::intersect" THEN SphereRoots(args.obj, args.ray)
    ELSE {PlaneRoot(args.obj, args.ray)}

\* C29: Sphere::intersect and Plane::intersect return 0 or a value
\* strictly greater than ScalarPrecision, never a negative value and never
\* one in (0, ScalarPrecision]; the root 0 of a ray whose origin lies on
\* the surface is never reported as a hit.
C29_ZeroOrAbovePrecision ==
    fn \in {"Sphere::intersect", "Plane::intersect"} =>
        /\ ret = 0 \/ FGt(ret, ScalarPrecision)
        /\ ret # NaN
        /\ 0 \in CandidateRoots => (ret = 0 \/ ret \in CandidateRoots \ {0})

\* The origin of the ray lies on a sphere that the ray enters: the root 0
\* was passed over and the far root returned.
C29_Witness ==
    /\ fn = "Sphere::intersect"
    /\ 0 \in CandidateRoots
    /\ ret > ScalarPrecision
    /\ ret \in CandidateRoots

\* The origin of the ray lies on a plane: no hit is reported.
C29_WitnessPlane ==
    /\ fn = "Plane::intersect"
    /\ 0 \in CandidateRoots
    /\ ret = 0


-----------------------------------------------------------------------------
(* The degree-based trigonometric helpers of math.h and the rotation       *)
(* matrices built with them, call by call.                                 *)

ThetaOne    == 100   \* model units per 1.0 of an angle
MaxEighths  == 4     \* theta is 0, 45, ... , 45 * MaxEighths degrees
MaxFrames   == 6     \* the frames the call stack has room for

\* A function of a namespace; the global namespace is "".
Function(scope, name) == [scope |-> scope, name |-> name]

\* The names each namespace declares: <cmath> puts sin and cos into the
\* global namespace, main.cc its dsin, dcos and rotation matrices, and
\* math.h declares the names of rt.
Declared ==
    [scope \in {"rt::deg", "rt::radians", "rt", ""} |->
        CASE scope = "rt::deg"     -> {"sin", "cos"}
          [] scope = "rt::radians" -> {"toDegrees"}
          [] scope = "rt"          -> {"clamp", "RotationX", "RotationY",
                                       "RotationZ", "rotation"}
          [] scope = ""            -> {"sin", "cos", "sqrt", "dsin", "dcos",
                                       "RotationX", "RotationY",
                                       "RotationZ"}]

\* The namespaces that enclose the body of a function of the namespace,
\* innermost first.
Enclosing(scope) ==
    CASE scope = "rt::deg" -> <<"rt::deg", "rt", "">>
      [] scope = "rt"      -> <<"rt", "">>
      [] scope = ""        -> <<"">>

\* Unqualified name lookup from the i-th of the scopes on: the name is
\* found in the innermost namespace that declares it, and the search ends
\* there.  The argument is a Scalar, a double, which has no associated
\* namespace.
RECURSIVE LookupFrom(_, _, _)
LookupFrom(name, scopes, i) ==
    IF name \in Declared[scopes[i]] THEN Function(scopes[i], name)
    ELSE LookupFrom(name, scopes, i + 1)

Lookup(name, scope) == LookupFrom(name, Enclosing(scope), 1)

\* radians::toDegrees: radians * M_PI / 180.0, with 355/113 for M_PI.
toDegrees(radians) == (radians * 355) \div (113 * 180)

IsHelper(f) == f.scope = "rt::deg" \/ f.name \in {"dsin", "dcos"}
IsRotation(f) == f.name \in {"RotationX", "RotationY", "RotationZ"}
IsLibrary(f) == f.scope = "" /\ f.name \in {"sin", "cos"}

\* The name a helper calls: sin in deg::sin and dsin, cos in the others.
Called(f) == IF f.name \in {"sin", "dsin"} THEN "sin" ELSE "cos"

\* A call of `function' in progress, `made' of its calls done.
Frame(function, theta) == [function |-> function, theta |-> theta, made |-> 0]

\* The calls the body of a function makes before it returns: a helper
\* calls sin or cos once, a rotation matrix takes four values of the
\* helpers, rotation builds three matrices.
Needed(f) == IF IsHelper(f) THEN 1 ELSE IF IsRotation(f) THEN 4 ELSE 3

\* The functions the next call of the frame can be to.  A helper calls
\* sin or cos by its unqualified name; the constructors of math.h name
\* deg::sin and deg::cos and those of main.cc dsin and dcos, in an order
\* the compiler chooses.
NextCallees(frame) ==
    IF IsHelper(frame.function)
    THEN {Lookup(Called(frame.function), frame.function.scope)}
    ELSE IF IsRotation(frame.function)
    THEN IF frame.function.scope = "rt"
         THEN {Function("rt::deg", "sin"), Function("rt::deg", "cos")}
         ELSE {Function("", "dsin"), Function("", "dcos")}
    ELSE {Function("rt", <<"RotationZ", "RotationY", "RotationX">>[frame.made + 1])}

\* The argument of the frame's next call.
Argument(frame) ==
    IF IsHelper(frame.function) THEN toDegrees(frame.theta) ELSE frame.theta

\* The innermost call in progress.
Running == frames[Len(frames)]

\* The frames once the innermost call has returned to its caller.
AfterReturn ==
    LET callers == SubSeq(frames, 1, Len(frames) - 1)
    IN  IF callers = << >> THEN << >>
        ELSE [callers EXCEPT ![Len(callers)].made = @ + 1]

\* The innermost call is about to make a call.
AtCall ==
    /\ frames # << >>
    /\ ret = NoCall
    /\ Running.made < Needed(Running.function)

\* The call of the function under test.
TrigEnter ==
    /\ fn = NoCall
    /\ frames = << >>
    /\ fn' = args.function.name
    /\ frames' = <<Frame(args.function, args.theta)>>
    /\ UNCHANGED <<args, ret, libraryCalls, renderVars, regionVars, heapVars>>

\* A call: of the standard library, which returns, or of a function of
\* math.h, which gets a frame.
TrigCall ==
    /\ AtCall
    /\ Len(frames) < MaxFrames
    /\ \E callee \in NextCallees(Running) :
           IF IsLibrary(callee)
           THEN /\ libraryCalls' = libraryCalls + 1
                /\ frames' = [frames EXCEPT ![Len(frames)].made = @ + 1]
           ELSE /\ frames' = Append(frames, Frame(callee, Argument(Running)))
                /\ UNCHANGED libraryCalls
    /\ UNCHANGED <<fn, args, ret, renderVars, regionVars, heapVars>>

\* A call of a function of math.h with no room left on the stack.
TrigStackOverflow ==
    /\ AtCall
    /\ Len(frames) = MaxFrames
    /\ \E callee \in NextCallees(Running) : ~IsLibrary(callee)
    /\ ret' = "stack overflow"
    /\ UNCHANGED <<fn, args, frames, libraryCalls, renderVars, regionVars,
                   heapVars>>

\* return sin(...) compiled as a jump: the callee takes over the frame of
\* the helper.
TrigTailCall ==
    /\ AtCall
    /\ IsHelper(Running.function)
    /\ \E callee \in NextCallees(Running) :
           /\ ~IsLibrary(callee)
           /\ frames' = [frames EXCEPT ![Len(frames)] =
                             Frame(callee, Argument(Running))]
    /\ UNCHANGED <<fn, args, ret, libraryCalls, renderVars, regionVars,
                   heapVars>>

\* A function that has made its calls returns.
TrigReturn ==
    /\ frames # << >>
    /\ ret = NoCall
    /\ Running.made = Needed(Running.function)
    /\ frames' = AfterReturn
    /\ ret' = IF AfterReturn = << >> THEN "returned" ELSE ret
    /\ UNCHANGED <<fn, args, libraryCalls, renderVars, regionVars, heapVars>>

\* A recursion without end and without side effects is undefined: a build
\* that takes it to end lets control leave the function with some value.
TrigUndefined ==
    /\ AtCall
    /\ NextCallees(Running) = {Running.function}
    /\ frames' = AfterReturn
    /\ ret' = IF AfterReturn = << >> THEN "returned" ELSE ret
    /\ UNCHANGED <<fn, args, libraryCalls, renderVars, regionVars, heapVars>>

\* The functions of math.h and of main.cc.
MathFunctions ==
    {Function("rt::deg", "sin"), Function("rt::deg", "cos"),
     Function("rt", "RotationX"), Function("rt", "RotationY"),
     Function("rt", "RotationZ"), Function("rt", "rotation")}

MainFunctions ==
    {Function("", "dsin"), Function("", "dcos"), Function("", "RotationX"),
     Function("", "RotationY"), Function("", "RotationZ")}

TrigFunctions == MathFunctions \cup MainFunctions

TrigInit ==
    /\ fn = NoCall
    /\ args \in [function : TrigFunctions,
                 theta : {45 * k * ThetaOne : k \in 0 .. MaxEighths}]
    /\ ret = NoCall
    /\ NoRender

TrigNext ==
    \/ TrigEnter
    \/ TrigCall
    \/ TrigStackOverflow
    \/ TrigTailCall
    \/ TrigReturn
    \/ TrigUndefined

SpecTrig == TrigInit /\ [][TrigNext]_vars

\* The one thread takes its next step whenever it has one.
SpecTrigFair == SpecTrig /\ WF_vars(TrigNext)

\* C30: deg::sin and deg::cos terminate for every theta, each with exactly
\* one call of the standard library's sin or cos, and so do RotationX,
\* RotationY, RotationZ and rotation.
C30_TrigTerminates ==
    /\ (fn # NoCall /\ args.function \in MathFunctions) ~> (ret = "returned")
    /\ []((ret = "returned" /\ args.function \in MathFunctions
              /\ IsHelper(args.function)) => libraryCalls = 1)

\* No call of a function of math.h reaches the standard library, and a
\* helper of math.h in progress that has called has called itself.
C30_HelperCallsItself ==
    args.function \in MathFunctions =>
        /\ libraryCalls = 0
        /\ \A k \in 1 .. (Len(frames) - 1) :
               IsHelper(frames[k].function) =>
                   frames[k + 1].function = frames[k].function

\* dsin and dcos of main.cc and the rotation matrices built with them
\* return, a helper after exactly one call of the standard library and a
\* matrix after four.
C30_MainTrigTerminates ==
    /\ (fn # NoCall /\ args.function \in MainFunctions) ~> (ret = "returned")
    /\ []((ret = "returned" /\ args.function \in MainFunctions) =>
              libraryCalls = IF IsHelper(args.function) THEN 1 ELSE 4)

=============================================================================
